---- MODULE Spec2Model ----
(***************************************************************************)
(* Browser client of the voice gateway: the acoustic barge-in detector     *)
(* (BargeInRmsDetector), the playback scheduler (TTSManager) and the       *)
(* session glue of main.js.                                                *)
(*                                                                         *)
(* Units.  Every level (RMS, thresholds, ambient average) is a fixed-point *)
(* integer in millionths of full scale: 0.014 is 14000.  Every time        *)
(* (Date.now(), AudioContext.currentTime, chunk durations) is an integer   *)
(* number of milliseconds: bufferSeconds 0.15 is 150.  Products by the     *)
(* fractional constants 0.05, 2.8 and 0.7 are taken with integer           *)
(* arithmetic and rounded down.                                            *)
(***************************************************************************)
EXTENDS Integers, Sequences, FiniteSets, TLC

VARIABLES
    bargeInDetector,  \* the BargeInRmsDetector instance of main.js:21
    nowMs,            \* Date.now(), relative to the page's origin
    lastCall,         \* observer: the arguments of the last process() call
    lastResult,       \* observer: what the last process() call returned
    trigLog,          \* observer: <<[at, frameNo]>> of every triggered=true
    frameCount,       \* observer: process() calls since construction
    runLen,           \* observer: consecutive at-or-above frames while speaking
    aboveCount,       \* observer: at-or-above frames since the counter was last cleared
    quietOnly,        \* observer: every call so far had speaking=true, rms < baseThreshold
    loudOnly,         \* observer: every call so far had speaking=true, rms >= 2*maxDynamicThreshold
    lastOp,           \* observer: name of the last operation that ran
    ttsManager,       \* the TTSManager instance of main.js:3
    ctxSeq,           \* AudioContexts created so far by the TTSManager
    sources,          \* the AudioBufferSourceNodes started so far, by chunk number
    playCalls,        \* playChunk calls suspended at an await
    chunkSeq,         \* playChunk calls made so far
    sockets,          \* the WebSockets created by startStream, in creation order
    ws,               \* ws.current: an index into sockets, 0 for null
    streamState,      \* streamState.starting / .stopping
    startsPending,    \* startStream calls suspended at await ttsManager.prepare
    audioManager,     \* the AudioManager instance of main.js:2
    audioStarts,      \* AudioManager.start calls suspended at an await
    pipelines,        \* worklet nodes whose port.onmessage is attached
    pipeSeq,          \* capture pipelines built so far
    voiceEnabled,     \* voiceEnabledEl.checked
    sessionFrames,    \* frames delivered to the audio callback so far
    resetMark,        \* observer: playChunk calls made when reset() last ran
    sent,             \* the barge_in messages sent so far, in order
    wire,             \* everything sent on the sockets so far, in order
    currentPartialEl, \* the partial transcript on display, NoElement for null
    lastFinalSignature, \* message-handler.js:12
    lastFinalAtMs,    \* message-handler.js:13
    logEl,            \* the final transcripts appended to the log, in order
    stats,            \* observer: what the last getPlaybackStats() query returned
    lastMessage,      \* observer: the last message handleMessage was given
    pcmProcessor,     \* the PCMProcessor of the capture worklet: buffer, bufferIndex
    posted,           \* the frames PCMProcessor has posted on its port, in order
    fed,              \* observer: the input samples given to PCMProcessor so far
    session           \* the server's Orchestrator session, as the specification describes it

sessVars == <<sockets, ws, streamState, startsPending, audioManager, audioStarts,
              pipelines, pipeSeq, voiceEnabled, sessionFrames>>

ttsVars == <<ttsManager, ctxSeq, sources, playCalls, chunkSeq, resetMark>>

handlerVars == <<currentPartialEl, lastFinalSignature, lastFinalAtMs, logEl, stats,
                 lastMessage>>

pcmVars == <<pcmProcessor, posted, fed>>

obsVars == <<lastCall, lastResult, trigLog, frameCount,
             runLen, aboveCount, quietOnly, loudOnly>>

vars == <<bargeInDetector, nowMs, lastCall, lastResult, trigLog, frameCount,
          runLen, aboveCount, quietOnly, loudOnly, lastOp,
          ttsManager, ctxSeq, sources, playCalls, chunkSeq,
          sockets, ws, streamState, startsPending, audioManager, audioStarts,
          pipelines, pipeSeq, voiceEnabled, sessionFrames,
          resetMark, sent, wire, currentPartialEl, lastFinalSignature, lastFinalAtMs,
          logEl, stats, lastMessage, pcmProcessor, posted, fed, session>>

(***************************************************************************)
(* Bounds of the model                                                     *)
(***************************************************************************)
MaxFrames == 5
MaxMinFrames == 3
MaxTicks == 2
StartMs == 1000
TickMs == 450
MaxChunks == 2
MaxSockets == 1
MaxConnections == 3
MaxDrops == 2
BufferSize == 3
MaxSamples == 7
MaxBlock == 2
MaxFinals == 2
MaxAgentChars == 3
MaxOrchTicks == 4
SilenceStepMs == 2000
MaxSessionFrames == 2
MaxSessionChunks == 1
MaxStatsClock == 2200
MaxLogEntries == 2
MaxDedupTicks == 3
DedupStepMs == 1250
StatsStepMs == 50

(***************************************************************************)
(* BargeInRmsDetector: constructor defaults                                *)
(***************************************************************************)
BaseThreshold == 14000
DefaultMinFrames == 2
CooldownMs == 900
VisMax == 50000
NoiseAlphaPct == 5
NoiseMultiplierTenths == 28
MinDynamicThreshold == 10000
MaxDynamicThreshold == 35000
InitialAmbient == 4000
NearTenths == 7

Min2(a, b) == IF a < b THEN a ELSE b
Max2(a, b) == IF a > b THEN a ELSE b

\* new BargeInRmsDetector({minFrames})
NewDetector(minFrames) ==
    [ minFrames        |-> minFrames,
      speechFrames     |-> 0,
      lastTriggeredAt  |-> 0,
      ambientRmsEma    |-> InitialAmbient,
      currentThreshold |-> BaseThreshold ]

Clamp(value, min, max) == Max2(min, Min2(max, value))

RECURSIVE SumSquares(_)
SumSquares(s) ==
    IF s = <<>> THEN 0 ELSE Head(s) * Head(s) + SumSquares(Tail(s))

\* the largest r in lo..hi with r*r <= v  (Math.sqrt, rounded down)
RECURSIVE SqrtIn(_, _, _)
SqrtIn(v, lo, hi) ==
    IF lo >= hi THEN lo
    ELSE LET mid == (lo + hi + 1) \div 2
         IN  IF mid * mid <= v THEN SqrtIn(v, mid, hi) ELSE SqrtIn(v, lo, mid - 1)

\* sqrt(sum((x/32768)^2) / n), in millionths: 1/32768 = 15625/512 millionths
ComputeRmsFromInt16(int16Data) ==
    IF Len(int16Data) = 0 THEN 0
    ELSE (SqrtIn(SumSquares(int16Data) \div Len(int16Data), 0, 32768) * 15625) \div 512

\* mutant: the base threshold is left out of the maximum
ComputeDynamicThresholdNoBase(d) ==
    LET adaptive == (d.ambientRmsEma * NoiseMultiplierTenths) \div 10
    IN  Clamp(adaptive, MinDynamicThreshold, MaxDynamicThreshold)

ComputeDynamicThreshold(d) ==
    LET adaptive == (d.ambientRmsEma * NoiseMultiplierTenths) \div 10
    IN  Clamp(Max2(BaseThreshold, adaptive), MinDynamicThreshold, MaxDynamicThreshold)

\* mutant: reset() leaves the run counter alone
DetectorResetKeepsRun(d) == d

\* reset()
DetectorReset(d) == [d EXCEPT !.speechFrames = 0]

\* process(), line 258: the moving average of the ambient level
AmbientEma(d, rms) ==
    ((100 - NoiseAlphaPct) * d.ambientRmsEma + NoiseAlphaPct * rms) \div 100

\* mutant: the run counter survives a frame without playback
ProcessIdleKeepsRun(d, rms) ==
    LET d1 == IF rms <= VisMax
              THEN LET e == [d EXCEPT !.ambientRmsEma = AmbientEma(d, rms)]
                   IN  [e EXCEPT !.currentThreshold = ComputeDynamicThreshold(e)]
              ELSE d
    IN  [ det    |-> d1,
          result |-> [ triggered |-> FALSE, rms |-> rms,
                       threshold |-> d1.currentThreshold, state |-> "silence" ] ]

\* mutant: the ambient average also learns frames above the ceiling
ProcessIdleNoCeiling(d, rms) ==
    LET e  == [d EXCEPT !.ambientRmsEma = AmbientEma(d, rms)]
        d1 == [e EXCEPT !.currentThreshold = ComputeDynamicThreshold(e)]
        d2 == [d1 EXCEPT !.speechFrames = 0]
    IN  [ det    |-> d2,
          result |-> [ triggered |-> FALSE, rms |-> rms,
                       threshold |-> d2.currentThreshold, state |-> "silence" ] ]

\* mutant: the threshold is not recomputed after the average moved
ProcessIdleStaleThreshold(d, rms) ==
    LET d1 == IF rms <= VisMax
              THEN [d EXCEPT !.ambientRmsEma = AmbientEma(d, rms)]
              ELSE d
        d2 == [d1 EXCEPT !.speechFrames = 0]
    IN  [ det    |-> d2,
          result |-> [ triggered |-> FALSE, rms |-> rms,
                       threshold |-> d2.currentThreshold, state |-> "silence" ] ]

\* process(), lines 256-269: no synthesized speech is playing
ProcessIdle(d, rms) ==
    LET d1 == IF rms <= VisMax
              THEN LET e == [d EXCEPT !.ambientRmsEma = AmbientEma(d, rms)]
                   IN  [e EXCEPT !.currentThreshold = ComputeDynamicThreshold(e)]
              ELSE d
        d2 == [d1 EXCEPT !.speechFrames = 0]
    IN  [ det    |-> d2,
          result |-> [ triggered |-> FALSE, rms |-> rms,
                       threshold |-> d2.currentThreshold, state |-> "silence" ] ]

\* mutant: a frame at or above the threshold counts twice
RunUpdateCountsTwice(d, rms) ==
    IF rms >= d.currentThreshold
    THEN LET n == d.speechFrames + 2
         IN  [ det   |-> [d EXCEPT !.speechFrames = n],
               state |-> IF n >= d.minFrames THEN "trigger" ELSE "near" ]
    ELSE [ det   |-> [d EXCEPT !.speechFrames = Max2(0, d.speechFrames - 1)],
           state |-> IF rms * 10 >= d.currentThreshold * NearTenths
                     THEN "near" ELSE "silence" ]

\* process(), lines 271-280: the run counter and the reported state
RunUpdate(d, rms) ==
    IF rms >= d.currentThreshold
    THEN LET n == d.speechFrames + 1
         IN  [ det   |-> [d EXCEPT !.speechFrames = n],
               state |-> IF n >= d.minFrames THEN "trigger" ELSE "near" ]
    ELSE [ det   |-> [d EXCEPT !.speechFrames = Max2(0, d.speechFrames - 1)],
           state |-> IF rms * 10 >= d.currentThreshold * NearTenths
                     THEN "near" ELSE "silence" ]

\* mutant: the cooldown is not checked
FireNoCooldown(d, now) ==
    IF d.speechFrames >= d.minFrames
    THEN [ det |-> [d EXCEPT !.lastTriggeredAt = now, !.speechFrames = 0],
           triggered |-> TRUE ]
    ELSE [ det |-> d, triggered |-> FALSE ]

\* mutant: the cooldown lasts twice cooldownMs
FireLongCooldown(d, now) ==
    IF d.speechFrames >= d.minFrames /\ (now - d.lastTriggeredAt) >= 2 * CooldownMs
    THEN [ det |-> [d EXCEPT !.lastTriggeredAt = now, !.speechFrames = 0],
           triggered |-> TRUE ]
    ELSE [ det |-> d, triggered |-> FALSE ]

\* mutant: the run must exceed minFrames
FireLate(d, now) ==
    IF d.speechFrames > d.minFrames /\ (now - d.lastTriggeredAt) >= CooldownMs
    THEN [ det |-> [d EXCEPT !.lastTriggeredAt = now, !.speechFrames = 0],
           triggered |-> TRUE ]
    ELSE [ det |-> d, triggered |-> FALSE ]

\* process(), lines 282-288: the trigger and its cooldown
Fire(d, now) ==
    IF d.speechFrames >= d.minFrames /\ (now - d.lastTriggeredAt) >= CooldownMs
    THEN [ det |-> [d EXCEPT !.lastTriggeredAt = now, !.speechFrames = 0],
           triggered |-> TRUE ]
    ELSE [ det |-> d, triggered |-> FALSE ]

\* process(int16Data, isTtsSpeaking), with Date.now() = now
Process(d, int16Data, isTtsSpeaking, now) ==
    LET rms == ComputeRmsFromInt16(int16Data)
        d0  == [d EXCEPT !.currentThreshold = ComputeDynamicThreshold(d)]
    IN  IF ~isTtsSpeaking
        THEN ProcessIdle(d0, rms)
        ELSE LET run  == RunUpdate(d0, rms)
                 fire == Fire(run.det, now)
             IN  [ det    |-> fire.det,
                   result |-> [ triggered |-> fire.triggered, rms |-> rms,
                                threshold |-> fire.det.currentThreshold,
                                state     |-> run.state ] ]

(***************************************************************************)
(* TTSManager                                                              *)
(***************************************************************************)
BufferMs == 150
PreferredSampleRate == 16000
DefaultSampleRate == 16000
SpeakingSlackMs == 10

NoContext == [id |-> 0, sampleRate |-> 0, state |-> "none", currentTime |-> 0]

\* new AudioContext({sampleRate}): its clock starts at 0
NewAudioContext(id, sampleRate, state) ==
    [id |-> id, sampleRate |-> sampleRate, state |-> state, currentTime |-> 0]

\* new TTSManager()
NewTtsManager ==
    [ context           |-> NoContext,
      playQueue         |-> <<>>,
      activeNodes       |-> <<>>,
      nextPlayTime      |-> 0,
      chunkTimeline     |-> <<>>,
      totalAudioSeconds |-> 0,
      totalTextChars    |-> 0 ]

\* sampleRate || 16000, an absent rate being 0
OrDefaultRate(sampleRate) ==
    IF sampleRate = 0 THEN DefaultSampleRate ELSE sampleRate

\* _ensureContext(sampleRate); a context it creates gets `id` and `state`
EnsureContext(t, sampleRate, id, state) ==
    IF t.context = NoContext
    THEN [t EXCEPT !.context = NewAudioContext(id, OrDefaultRate(sampleRate), state)]
    ELSE IF sampleRate # 0 /\ t.context.sampleRate # sampleRate
         THEN [t EXCEPT !.context = NewAudioContext(id, sampleRate, state),
                        !.nextPlayTime = 0,
                        !.activeNodes = <<>>]
         ELSE t

\* mutant: nextPlayTime survives the reset
TtsResetKeepsNextPlayTime(t) ==
    [t EXCEPT !.activeNodes = <<>>,
              !.playQueue = <<>>,
              !.chunkTimeline = <<>>,
              !.totalAudioSeconds = 0,
              !.totalTextChars = 0]

\* mutant: each reset drops only the oldest active node
TtsResetStopsOne(t) ==
    [t EXCEPT !.activeNodes = IF @ = <<>> THEN <<>> ELSE Tail(@),
              !.playQueue = <<>>,
              !.nextPlayTime = 0,
              !.chunkTimeline = <<>>,
              !.totalAudioSeconds = 0,
              !.totalTextChars = 0]

\* reset()
TtsReset(t) ==
    [t EXCEPT !.activeNodes = <<>>,
              !.playQueue = <<>>,
              !.nextPlayTime = 0,
              !.chunkTimeline = <<>>,
              !.totalAudioSeconds = 0,
              !.totalTextChars = 0]

\* close()
TtsClose(t) == TtsReset([t EXCEPT !.context = NoContext])

\* playChunk(), lines 118-138: schedule the decoded chunk of call c
ScheduleChunk(t, c) ==
    LET now     == t.context.currentTime
        startAt == IF t.nextPlayTime < now + BufferMs
                   THEN now + BufferMs ELSE t.nextPlayTime
        meta    == [ id |-> c.id, startAt |-> startAt, duration |-> c.duration,
                     textChars |-> c.textChars, ended |-> FALSE ]
    IN  [t EXCEPT !.nextPlayTime = startAt + c.duration,
                  !.chunkTimeline = Append(@, meta),
                  !.totalAudioSeconds = @ + c.duration,
                  !.totalTextChars = @ + c.textChars,
                  !.activeNodes = Append(@, c.id)]

\* activeNodes.filter(n => n !== source)
RECURSIVE WithoutNode(_, _)
WithoutNode(nodes, id) ==
    IF nodes = <<>> THEN <<>>
    ELSE IF Head(nodes) = id THEN WithoutNode(Tail(nodes), id)
         ELSE <<Head(nodes)>> \o WithoutNode(Tail(nodes), id)

\* mutant: the callback marks the chunk ended and leaves its node active
SourceEndedKeepsNode(t, id) ==
    [t EXCEPT !.chunkTimeline =
                  [i \in 1..Len(@) |->
                     IF @[i].id = id THEN [@[i] EXCEPT !.ended = TRUE] ELSE @[i]]]

\* mutant: the callback marks the newest chunk of the timeline as ended
SourceEndedMarksLast(t, id) ==
    [t EXCEPT !.activeNodes = WithoutNode(@, id),
              !.chunkTimeline =
                  [i \in 1..Len(@) |->
                     IF i = Len(@) THEN [@[i] EXCEPT !.ended = TRUE] ELSE @[i]]]

\* source.onended, lines 139-142; chunkMeta is the timeline entry while it is
\* still in the timeline
SourceEnded(t, id) ==
    [t EXCEPT !.activeNodes = WithoutNode(@, id),
              !.chunkTimeline =
                  [i \in 1..Len(@) |->
                     IF @[i].id = id THEN [@[i] EXCEPT !.ended = TRUE] ELSE @[i]]]

\* isSpeaking()
IsSpeaking(t) ==
    /\ t.context # NoContext
    /\ \/ Len(t.activeNodes) > 0
       \/ t.nextPlayTime > t.context.currentTime + SpeakingSlackMs

\* (now - chunk.startAt) / chunk.duration clamped to 0..1, in millionths; 1 for
\* a chunk that ended or whose end the clock has passed, 0 before its start
\* (getPlaybackStats(), lines 165-176)
ChunkRatio(chunk, now) ==
    IF chunk.ended \/ now >= chunk.startAt + chunk.duration THEN 1000000
    ELSE IF now > chunk.startAt
         THEN Max2(0, Min2(1000000, ((now - chunk.startAt) * 1000000) \div chunk.duration))
         ELSE 0

\* playedAudioSeconds after the loop of lines 165-177, in microseconds
RECURSIVE PlayedAudio(_, _)
PlayedAudio(timeline, now) ==
    IF timeline = <<>> THEN 0
    ELSE (Head(timeline).duration * ChunkRatio(Head(timeline), now)) \div 1000
         + PlayedAudio(Tail(timeline), now)

\* playedTextChars after the loop of lines 165-177, in thousandths of a character
RECURSIVE PlayedText(_, _)
PlayedText(timeline, now) ==
    IF timeline = <<>> THEN 0
    ELSE (Head(timeline).textChars * ChunkRatio(Head(timeline), now)) \div 1000
         + PlayedText(Tail(timeline), now)

\* Number(seconds.toFixed(3)): microseconds rounded to the nearest millisecond
ToFixed3(us) == (us + 500) \div 1000

\* Number(clamp(part / whole * 100, 0, 100).toFixed(1)), in tenths of a percent;
\* 0 when whole is not positive (lines 180-185, 190-191)
PercentTenths(part, whole) ==
    IF whole > 0
    THEN Max2(0, Min2(1000, (part * 2000 + whole) \div (2 * whole)))
    ELSE 0

NoStats ==
    [ played_audio_seconds |-> 0, total_audio_seconds |-> 0,
      playback_percent |-> 0, played_text_percent |-> 0 ]

\* mutant: a chunk whose ended flag is set is skipped instead of counted whole
GetPlaybackStatsSkipsEnded(t) ==
    IF t.context = NoContext \/ t.chunkTimeline = <<>> THEN NoStats
    ELSE LET now    == t.context.currentTime
             live   == SelectSeq(t.chunkTimeline, LAMBDA c : ~c.ended)
             total  == Max2(t.totalAudioSeconds, 0)
         IN  [ played_audio_seconds |-> ToFixed3(PlayedAudio(live, now)),
               total_audio_seconds  |-> ToFixed3(total * 1000),
               playback_percent     |-> PercentTenths(PlayedAudio(live, now) \div 10, total * 100),
               played_text_percent  |-> PercentTenths(PlayedText(live, now), t.totalTextChars * 1000) ]

\* mutant: a chunk counts whole as soon as the clock is past its start
GetPlaybackStatsNoProrate(t) ==
    IF t.context = NoContext \/ t.chunkTimeline = <<>> THEN NoStats
    ELSE LET now    == t.context.currentTime
             whole  == [i \in 1..Len(t.chunkTimeline) |->
                          [t.chunkTimeline[i] EXCEPT
                              !.ended = @ \/ now > t.chunkTimeline[i].startAt]]
             total  == Max2(t.totalAudioSeconds, 0)
         IN  [ played_audio_seconds |-> ToFixed3(PlayedAudio(whole, now)),
               total_audio_seconds  |-> ToFixed3(total * 1000),
               playback_percent     |-> PercentTenths(PlayedAudio(whole, now) \div 10, total * 100),
               played_text_percent  |-> PercentTenths(PlayedText(whole, now), t.totalTextChars * 1000) ]

\* mutant: a chunk counts the time elapsed since its start, not limited to its
\* duration
GetPlaybackStatsElapsedUnclamped(t) ==
    IF t.context = NoContext \/ t.chunkTimeline = <<>> THEN NoStats
    ELSE LET now    == t.context.currentTime
             elapsed[i \in 0..Len(t.chunkTimeline)] ==
                 IF i = 0 THEN 0
                 ELSE elapsed[i - 1] + Max2(0, now - t.chunkTimeline[i].startAt)
             played == 1000 * elapsed[Len(t.chunkTimeline)]
             text   == PlayedText(t.chunkTimeline, now)
             total  == Max2(t.totalAudioSeconds, 0)
         IN  [ played_audio_seconds |-> ToFixed3(played),
               total_audio_seconds  |-> ToFixed3(total * 1000),
               playback_percent     |-> PercentTenths(played \div 10, total * 100),
               played_text_percent  |-> PercentTenths(text, t.totalTextChars * 1000) ]

\* getPlaybackStats(): seconds in milliseconds, percents in tenths of a percent
GetPlaybackStats(t) ==
    IF t.context = NoContext \/ t.chunkTimeline = <<>> THEN NoStats
    ELSE LET now    == t.context.currentTime
             played == PlayedAudio(t.chunkTimeline, now)
             text   == PlayedText(t.chunkTimeline, now)
             total  == Max2(t.totalAudioSeconds, 0)
         IN  [ played_audio_seconds |-> ToFixed3(played),
               total_audio_seconds  |-> ToFixed3(total * 1000),
               playback_percent     |-> PercentTenths(played \div 10, total * 100),
               played_text_percent  |-> PercentTenths(text, t.totalTextChars * 1000) ]

\* the audio clock of a running context advances with real time
AdvanceAudio(t, ms) ==
    IF t.context # NoContext /\ t.context.state = "running"
    THEN [t EXCEPT !.context.currentTime = @ + ms]
    ELSE t

SeqToSet(q) == {q[i] : i \in 1..Len(q)}

\* node.stop() on every active node (reset(), lines 50-56)
StopNodes(srcs, nodes) ==
    [id \in DOMAIN srcs |->
        IF id \in SeqToSet(nodes) THEN [srcs[id] EXCEPT !.stopped = TRUE] ELSE srcs[id]]

\* the sources that can still deliver an ended event once the context they
\* play on has been replaced or closed: none
NoSources == <<>>

\* the sources left once source id has delivered its ended event
SourcesWithout(srcs, id) == [i \in DOMAIN srcs \ {id} |-> srcs[i]]

(***************************************************************************)
(* AudioManager and the session glue of main.js                            *)
(***************************************************************************)
\* new AudioManager(); stream, audioContext and processor hold the number of
\* the capture pipeline they belong to (0 for null), onAudioDataCallback the
\* socket its closure captured (0 for null)
NewAudioManager ==
    [ stream              |-> 0,
      audioContext        |-> 0,
      processor           |-> 0,
      isStarting          |-> FALSE,
      onAudioDataCallback |-> 0 ]

\* AudioManager.isActive()
AudioIsActive(a) == a.isStarting \/ a.stream # 0 \/ a.audioContext # 0

\* AudioManager.stop()
AudioStop(a) == NewAudioManager

\* hasActiveSocket()
HasActiveSocket(socks, cur) ==
    /\ cur # 0
    /\ socks[cur].readyState \in {"CONNECTING", "OPEN"}

\* sendImmediateBargeIn(threshold): whether it gets past its socket guard
BargeInSends(socks, cur) ==
    /\ cur # 0
    /\ socks[cur].readyState = "OPEN"

\* sendImmediateBargeIn(threshold): the playback it leaves behind
SendImmediateBargeIn(t, socks, cur) ==
    IF BargeInSends(socks, cur) THEN TtsReset(t) ELSE t

\* mutant: closing from the socket's close event opens a new socket
StopStreamSocketsReconnects(socks, cur, fromSocketClose) ==
    IF fromSocketClose
    THEN Append(socks, [readyState |-> "CONNECTING", handlers |-> TRUE])
    ELSE IF cur # 0
    THEN [socks EXCEPT ![cur] =
            [ readyState |-> IF @.readyState \in {"CONNECTING", "OPEN"}
                             THEN "CLOSING" ELSE @.readyState,
              handlers   |-> FALSE ]]
    ELSE socks

\* stopStream(fromSocketClose), lines 481-490: what becomes of the sockets
StopStreamSockets(socks, cur, fromSocketClose) ==
    IF cur # 0 /\ ~fromSocketClose
    THEN [socks EXCEPT ![cur] =
            [ readyState |-> IF @.readyState \in {"CONNECTING", "OPEN"}
                             THEN "CLOSING" ELSE @.readyState,
              handlers   |-> FALSE ]]
    ELSE socks

\* mutant: the audio data is sent whatever the socket's state
FrameSendsUnguarded(socks, cur, socket, data, triggered) ==
    (IF triggered /\ BargeInSends(socks, cur)
     THEN << [socket |-> cur, kind |-> "barge_in", data |-> <<>>] >>
     ELSE <<>>)
    \o (IF socket # 0
        THEN << [socket |-> socket, kind |-> "audio", data |-> data] >>
        ELSE <<>>)

\* mutant: the audio data goes out before the detector's barge_in message
FrameSendsAudioFirst(socks, cur, socket, data, triggered) ==
    (IF socket # 0 /\ cur = socket /\ socks[socket].readyState = "OPEN"
     THEN << [socket |-> socket, kind |-> "audio", data |-> data] >>
     ELSE <<>>)
    \o (IF triggered /\ BargeInSends(socks, cur)
        THEN << [socket |-> cur, kind |-> "barge_in", data |-> <<>>] >>
        ELSE <<>>)

\* the audio callback of startAudio, lines 453-458: what one frame puts on
\* the wire; socket is the socket the callback's closure captured
FrameSends(socks, cur, socket, data, triggered) ==
    (IF triggered /\ BargeInSends(socks, cur)
     THEN << [socket |-> cur, kind |-> "barge_in", data |-> <<>>] >>
     ELSE <<>>)
    \o (IF socket # 0 /\ cur = socket /\ socks[socket].readyState = "OPEN"
        THEN << [socket |-> socket, kind |-> "audio", data |-> data] >>
        ELSE <<>>)

\* Number(threshold.toFixed(4)): millionths rounded to the nearest ten-thousandth
ToFixed4(millionths) == ((millionths + 50) \div 100) * 100

\* mutant: the statistics are read after playback was reset
BargeInMessageAfterReset(t, threshold) ==
    [ type |-> "barge_in", barge_in_threshold |-> ToFixed4(threshold),
      stats |-> GetPlaybackStats(TtsReset(t)) ]

\* the barge_in message of sendImmediateBargeIn, lines 186 and 191-195, built
\* from the TTSManager as it is before resetTtsPlayback()
BargeInMessage(t, threshold) ==
    [ type |-> "barge_in", barge_in_threshold |-> ToFixed4(threshold),
      stats |-> GetPlaybackStats(t) ]

\* currentPartialEl = null
NoElement == [attached |-> FALSE, lastText |-> <<>>]

(***************************************************************************)
(* Inputs                                                                  *)
(***************************************************************************)
\* capture frames: empty, below baseThreshold, loud but within visMax,
\* and 2 x maxDynamicThreshold (above visMax)
Frames == { <<>>, <<400, -400>>, <<1638, 1638>>, <<2294, -2294>> }

\* frames the capture delivers during a session: silence and a shout
SessionFrames == { <<>>, <<2294, -2294>> }

\* tts_audio messages: sample_rate (0 when absent), decoded duration, text length
TtsAudio == { [sampleRate |-> 0,     duration |-> 600, textChars |-> 40],
              [sampleRate |-> 22050, duration |-> 300, textChars |-> 20] }

ContextStates == {"running", "suspended"}

\* data.status of an agent message
AgentStatuses == {"ok", "error"}

NoCall == [rms |-> -1, speaking |-> FALSE, pre |-> 0, data |-> <<>>]
NoResult == [triggered |-> FALSE, rms |-> -1, threshold |-> 0, state |-> "none"]

(***************************************************************************)
(* The detector on its own: any call sequence, any non-decreasing clock    *)
(***************************************************************************)
ObserveCall(d, f, speaking, out) ==
    LET rms   == ComputeRmsFromInt16(f)
        thr   == out.result.threshold
        above == speaking /\ rms >= thr
    IN  /\ lastCall' = [rms |-> rms, speaking |-> speaking, pre |-> d.speechFrames,
                         data |-> f]
        /\ lastResult' = out.result
        /\ frameCount' = frameCount + 1
        /\ trigLog' = IF out.result.triggered
                      THEN Append(trigLog, [at |-> nowMs, frameNo |-> frameCount + 1])
                      ELSE trigLog
        /\ runLen' = IF above THEN runLen + 1 ELSE 0
        /\ aboveCount' = LET base == IF lastResult.triggered THEN 0 ELSE aboveCount
                         IN  IF ~speaking THEN 0
                             ELSE IF above THEN base + 1 ELSE base
        /\ quietOnly' = (quietOnly /\ speaking /\ rms < BaseThreshold)
        /\ loudOnly' = (loudOnly /\ speaking /\ rms >= 2 * MaxDynamicThreshold)

DetProcess(f, speaking) ==
    /\ frameCount < MaxFrames
    /\ LET out == Process(bargeInDetector, f, speaking, nowMs)
       IN  /\ bargeInDetector' = out.det
           /\ ObserveCall(bargeInDetector, f, speaking, out)
    /\ lastOp' = "process"
    /\ UNCHANGED <<nowMs, ttsVars, sessVars, handlerVars, pcmVars, session, sent, wire>>

\* real time passes: Date.now() and the audio clock advance together
Tick ==
    /\ nowMs < StartMs + MaxTicks * TickMs
    /\ nowMs' = nowMs + TickMs
    /\ ttsManager' = AdvanceAudio(ttsManager, TickMs)
    /\ lastOp' = "other"
    /\ UNCHANGED <<bargeInDetector, obsVars, ctxSeq, sources, playCalls, chunkSeq,
                   resetMark, sessVars, handlerVars, pcmVars, session, sent, wire>>

DetectorInit(minFrames) ==
    /\ bargeInDetector = NewDetector(minFrames)
    /\ nowMs = StartMs
    /\ lastCall = NoCall
    /\ lastResult = NoResult
    /\ trigLog = <<>>
    /\ frameCount = 0
    /\ runLen = 0
    /\ aboveCount = 0
    /\ quietOnly = TRUE
    /\ loudOnly = TRUE
    /\ lastOp = "other"

TtsInit ==
    /\ ttsManager = NewTtsManager
    /\ ctxSeq = 0
    /\ sources = <<>>
    /\ playCalls = {}
    /\ chunkSeq = 0
    /\ resetMark = 0

\* message-handler.js:12-13 and the empty transcript view
(***************************************************************************)
(* PCMProcessor, the capture worklet; samples are in thousandths and the    *)
(* buffer holds BufferSize samples where the code's holds 4096              *)
(***************************************************************************)
\* the sequences of a sequence, one after the other
RECURSIVE Concat(_)
Concat(frames) ==
    IF frames = <<>> THEN <<>> ELSE Head(frames) \o Concat(Tail(frames))

\* new PCMProcessor()
NewPcmProcessor ==
    [ buffer |-> [i \in 1..BufferSize |-> 0], bufferIndex |-> 0 ]

\* process(), lines 26-27: Float32 to Int16, the store truncating toward zero
ToInt16(sample) ==
    LET s == IF sample < -1000 THEN -1000 ELSE IF sample > 1000 THEN 1000 ELSE sample
    IN  IF s < 0 THEN -((-s * 32768) \div 1000) ELSE (s * 32767) \div 1000

\* mutant: after a flush the next sample goes to the second slot
StoreSampleSkipsSlot(w, sample) ==
    LET buf == [w.proc.buffer EXCEPT ![w.proc.bufferIndex + 1] = ToInt16(sample)]
        idx == w.proc.bufferIndex + 1
    IN  IF idx >= BufferSize
        THEN [ proc |-> [buffer |-> buf, bufferIndex |-> 1],
               out  |-> Append(w.out, SubSeq(buf, 1, BufferSize)) ]
        ELSE [ proc |-> [buffer |-> buf, bufferIndex |-> idx], out |-> w.out ]

\* process(), lines 26-33, for one sample: w = [proc, out], the processor and
\* the frames posted so far
StoreSample(w, sample) ==
    LET buf == [w.proc.buffer EXCEPT ![w.proc.bufferIndex + 1] = ToInt16(sample)]
        idx == w.proc.bufferIndex + 1
    IN  IF idx >= BufferSize
        THEN [ proc |-> [buffer |-> buf, bufferIndex |-> 0],
               out  |-> Append(w.out, SubSeq(buf, 1, BufferSize)) ]
        ELSE [ proc |-> [buffer |-> buf, bufferIndex |-> idx], out |-> w.out ]

\* process(), lines 24-34: the loop over inputChannel
RECURSIVE PcmProcess(_, _)
PcmProcess(w, inputChannel) ==
    IF inputChannel = <<>> THEN w
    ELSE PcmProcess(StoreSample(w, Head(inputChannel)), Tail(inputChannel))

\* input samples: below -1, inside the range, at +1
Samples == { -1500, 300, 1000 }

\* the blocks process() is given; <<>> stands for an absent input as well
RECURSIVE Blocks(_)
Blocks(n) ==
    IF n = 0 THEN { <<>> }
    ELSE Blocks(n - 1) \cup { Append(b, x) : b \in { c \in Blocks(n - 1) : Len(c) = n - 1 },
                                              x \in Samples }

(***************************************************************************)
(* The Orchestrator of one session (server side, AudioService): its code   *)
(* is not among the sources, the definitions follow the specification      *)
(***************************************************************************)
SilenceWindowMs == 4000

\* a session on socket connect; events are the agent events sent to the
\* listener; finals, lastFinalAt and lastFinalText are observers: the Final
\* events received, the time and the text of the last
NewSession ==
    [ state |-> "Idle", pending |-> <<>>, timer |-> 0, queued |-> FALSE,
      handles |-> <<>>, current |-> 0, agentText |-> <<>>, history |-> <<>>,
      events |-> <<>>, finals |-> 0, lastFinalAt |-> 0, lastFinalText |-> <<>> ]

\* the handles whose request is still open at the generation engine
LiveHandles(o) == {i \in DOMAIN o.handles : o.handles[i].open}

\* mutant: a flush is dispatched whether or not a handle is in flight
FlushUnguarded(o) ==
    IF o.pending = <<>> THEN [o EXCEPT !.timer = 0, !.queued = FALSE]
    ELSE [o EXCEPT !.handles = Append(@, [ promptText |-> Concat(o.pending),
                                           chunksEmitted |-> <<>>,
                                           cancelled |-> FALSE, open |-> TRUE ]),
                   !.current = Len(o.handles) + 1,
                   !.pending = <<>>, !.timer = 0, !.queued = FALSE,
                   !.agentText = <<>>, !.state = "Flushing"]

\* Accumulating --silence timer fires--> Flushing: queued while a handle is
\* in flight, else the buffer becomes one prompt and one GenerationHandle
Flush(o) ==
    IF LiveHandles(o) # {} THEN [o EXCEPT !.timer = 0, !.queued = TRUE]
    ELSE IF o.pending = <<>> THEN [o EXCEPT !.timer = 0, !.queued = FALSE]
    ELSE [o EXCEPT !.handles = Append(@, [ promptText |-> Concat(o.pending),
                                           chunksEmitted |-> <<>>,
                                           cancelled |-> FALSE, open |-> TRUE ]),
                   !.current = Len(o.handles) + 1,
                   !.pending = <<>>, !.timer = 0, !.queued = FALSE,
                   !.agentText = <<>>, !.state = "Flushing"]

\* spokenText: the prefix of the agent's text proportional to
\* playedTextPercent, in tenths of a percent
SpokenPrefix(text, pct) == SubSeq(text, 1, (Len(text) * pct) \div 1000)

\* mutant: the interrupting text is not put back into the buffer
BargeInDropsText(o, text, pct, now) ==
    LET live  == o.current # 0 /\ o.handles[o.current].open
        agent == IF live THEN o.handles[o.current].chunksEmitted ELSE o.agentText
    IN  [o EXCEPT !.timer = IF text = <<>> THEN 0 ELSE now + SilenceWindowMs,
                  !.queued = FALSE,
                  !.handles = IF live THEN [@ EXCEPT ![o.current].cancelled = TRUE] ELSE @,
                  !.agentText = agent,
                  !.history = Append(@, [ userText |-> o.handles[o.current].promptText,
                                          agentText |-> agent, interrupted |-> TRUE,
                                          spokenText |-> SpokenPrefix(agent, pct) ]),
                  !.state = "Accumulating",
                  !.pending = <<>>]

\* barge-in, steps 1-5, from Flushing or Speaking; text is the Final that
\* caused it, <<>> for an acoustic trigger
BargeIn(o, text, pct, now) ==
    LET live  == o.current # 0 /\ o.handles[o.current].open
        agent == IF live THEN o.handles[o.current].chunksEmitted ELSE o.agentText
    IN  [o EXCEPT !.timer = IF text = <<>> THEN 0 ELSE now + SilenceWindowMs,
                  !.queued = FALSE,
                  !.handles = IF live THEN [@ EXCEPT ![o.current].cancelled = TRUE] ELSE @,
                  !.agentText = agent,
                  !.history = Append(@, [ userText |-> o.handles[o.current].promptText,
                                          agentText |-> agent, interrupted |-> TRUE,
                                          spokenText |-> SpokenPrefix(agent, pct) ]),
                  !.state = "Accumulating",
                  !.pending = IF text = <<>> THEN <<>> ELSE <<text>>]

\* mutant: a Final leaves an armed silence timer as it is
FinalArrivesKeepsTimer(o, text, pct, now) ==
    LET seen == [o EXCEPT !.finals = @ + 1, !.lastFinalAt = now,
                          !.lastFinalText = text]
    IN  IF o.state \in {"Flushing", "Speaking"}
        THEN BargeIn(seen, text, pct, now)
        ELSE [seen EXCEPT !.pending = Append(@, text),
                          !.timer = IF o.timer # 0 THEN o.timer
                                    ELSE now + SilenceWindowMs,
                          !.queued = FALSE,
                          !.state = "Accumulating"]

\* a Final transcript arrives: a barge-in while generating or speaking, else
\* it is buffered and the silence timer is armed anew
FinalArrives(o, text, pct, now) ==
    LET seen == [o EXCEPT !.finals = @ + 1, !.lastFinalAt = now,
                          !.lastFinalText = text]
    IN  IF o.state \in {"Flushing", "Speaking"}
        THEN BargeIn(seen, text, pct, now)
        ELSE [seen EXCEPT !.pending = Append(@, text),
                          !.timer = now + SilenceWindowMs,
                          !.queued = FALSE,
                          !.state = "Accumulating"]

\* Flushing --generation stream completes--> Speaking
GenerationCompletes(o) ==
    [o EXCEPT !.handles[o.current].open = FALSE,
              !.agentText = o.handles[o.current].chunksEmitted,
              !.state = "Speaking"]

\* the agent event of a failed generation
AgentError == [type |-> "agent", status |-> "error"]

\* mutant: a failed generation is tried again with the same prompt
GenerationFailsRetries(o) ==
    [o EXCEPT !.handles = Append([@ EXCEPT ![o.current].open = FALSE],
                                 [ promptText |-> o.handles[o.current].promptText,
                                   chunksEmitted |-> <<>>,
                                   cancelled |-> FALSE, open |-> TRUE ]),
              !.current = Len(o.handles) + 1,
              !.events = Append(@, AgentError)]

\* the generation engine fails mid-stream: the error is surfaced, the turn
\* is closed non-interrupted with the partial content, nothing is retried
GenerationFails(o) ==
    [o EXCEPT !.handles[o.current].open = FALSE,
              !.agentText = o.handles[o.current].chunksEmitted,
              !.events = Append(@, AgentError),
              !.history = Append(@, [ userText |-> o.handles[o.current].promptText,
                                      agentText |-> o.handles[o.current].chunksEmitted,
                                      interrupted |-> FALSE, spokenText |-> <<>> ]),
              !.state = "Idle"]

\* Speaking --all chunks end naturally--> Idle
PlaybackCompletes(o) ==
    [o EXCEPT !.history = Append(@, [ userText |-> o.handles[o.current].promptText,
                                      agentText |-> o.agentText,
                                      interrupted |-> FALSE, spokenText |-> <<>> ]),
              !.state = "Idle"]

\* the connection of a cancelled handle is severed; a queued flush follows
HandleClosed(o, i) ==
    LET closed == [o EXCEPT !.handles[i].open = FALSE]
    IN  IF o.queued THEN Flush(closed) ELSE closed

OrchInit == session = NewSession

PcmInit ==
    /\ pcmProcessor = NewPcmProcessor
    /\ posted = <<>>
    /\ fed = <<>>

HandlerInit ==
    /\ currentPartialEl = NoElement
    /\ lastFinalSignature = <<>>
    /\ lastFinalAtMs = 0
    /\ logEl = <<>>
    /\ stats = NoStats
    /\ lastMessage = [type |-> "none", original |-> <<>>]
    /\ PcmInit
    /\ OrchInit

SessionInit ==
    /\ sockets = <<>>
    /\ ws = 0
    /\ streamState = [starting |-> FALSE, stopping |-> FALSE]
    /\ startsPending = 0
    /\ audioManager = NewAudioManager
    /\ audioStarts = {}
    /\ pipelines = {}
    /\ pipeSeq = 0
    /\ voiceEnabled \in BOOLEAN
    /\ sessionFrames = 0
    /\ sent = <<>>
    /\ wire = <<>>

DetInit ==
    /\ \E m \in 1..MaxMinFrames : DetectorInit(m)
    /\ TtsInit
    /\ SessionInit
    /\ HandlerInit
    /\ voiceEnabled

DetNext ==
    \/ \E f \in Frames, speaking \in BOOLEAN : DetProcess(f, speaking)
    \/ Tick

SpecDetector == DetInit /\ [][DetNext]_vars


(***************************************************************************)
(* The TTSManager on its own: chunks arriving, awaits settling in any      *)
(* order, sources ending, resets and closes                                *)
(***************************************************************************)
\* playChunk(), lines 81-99: up to the first await
PlayChunkCall(t, m, seq, newCtx, state) ==
    LET rate == OrDefaultRate(m.sampleRate)
        t1   == EnsureContext(t, rate, newCtx, state)
    IN  [ tts  |-> t1,
          call |-> [ id |-> seq, sampleRate |-> rate, duration |-> m.duration,
                     textChars |-> m.textChars, ctx |-> t1.context.id,
                     stage |-> IF t1.context.state = "suspended"
                               THEN "resume" ELSE "decode" ] ]

PlayChunkUpTo(m, state, limit) ==
    /\ chunkSeq < limit
    /\ LET out     == PlayChunkCall(ttsManager, m, chunkSeq + 1, ctxSeq + 1, state)
           created == out.tts.context.id # ttsManager.context.id
       IN  /\ created \/ state = "running"
           /\ ttsManager' = out.tts
           /\ ctxSeq' = IF created THEN ctxSeq + 1 ELSE ctxSeq
           /\ playCalls' = playCalls \cup {out.call}
           /\ sources' = IF created THEN NoSources ELSE sources
    /\ chunkSeq' = chunkSeq + 1
    /\ lastOp' = "other"
    /\ UNCHANGED <<bargeInDetector, nowMs, obsVars, handlerVars, pcmVars, session, sent, wire, resetMark, sessVars>>

PlayChunk(m, state) == PlayChunkUpTo(m, state, MaxChunks)

\* playChunk(), lines 84-99: context.resume() settles; a closed context rejects
ResumeSettled(c, ok) ==
    /\ c \in playCalls
    /\ c.stage = "resume"
    /\ ok => c.ctx = ttsManager.context.id
    /\ IF ok
       THEN /\ ttsManager' = [ttsManager EXCEPT !.context.state = "running"]
            /\ playCalls' = (playCalls \ {c}) \cup {[c EXCEPT !.stage = "decode"]}
            /\ lastOp' = "other"
       ELSE /\ playCalls' = playCalls \ {c}
            /\ lastOp' = "other"
            /\ UNCHANGED ttsManager
    /\ UNCHANGED <<bargeInDetector, nowMs, obsVars, handlerVars, pcmVars, session, sent, wire, ctxSeq, sources,
                   chunkSeq, resetMark, sessVars>>

\* playChunk(), lines 99-142: the decode settles; with the context gone the
\* call throws and is dropped, otherwise the chunk is scheduled
DecodeSettled(c) ==
    /\ c \in playCalls
    /\ c.stage = "decode"
    /\ playCalls' = playCalls \ {c}
    /\ IF ttsManager.context = NoContext
       THEN /\ lastOp' = "other"
            /\ UNCHANGED <<ttsManager, sources>>
       ELSE /\ ttsManager' = ScheduleChunk(ttsManager, c)
            /\ sources' = (c.id :> [ endAt   |-> ttsManager'.nextPlayTime,
                                     stopped |-> FALSE ]) @@ sources
            /\ lastOp' = "schedule"
    /\ UNCHANGED <<bargeInDetector, nowMs, obsVars, handlerVars, pcmVars, session, sent, wire, ctxSeq, chunkSeq,
                   resetMark, sessVars>>

\* the ended event of a source of the live context: it played to its end or
\* was stopped
OnEnded(id) ==
    /\ id \in DOMAIN sources
    /\ ttsManager.context # NoContext
    /\ sources[id].stopped \/ ttsManager.context.currentTime >= sources[id].endAt
    /\ ttsManager' = SourceEnded(ttsManager, id)
    /\ sources' = SourcesWithout(sources, id)
    /\ lastOp' = "ended"
    /\ UNCHANGED <<bargeInDetector, nowMs, obsVars, handlerVars, pcmVars, session, sent, wire, ctxSeq, playCalls,
                   chunkSeq, resetMark, sessVars>>

ResetPlayback ==
    /\ ttsManager' = TtsReset(ttsManager)
    /\ sources' = StopNodes(sources, ttsManager.activeNodes)
    /\ lastOp' = "reset"
    /\ resetMark' = chunkSeq
    /\ UNCHANGED <<bargeInDetector, nowMs, obsVars, handlerVars, pcmVars, session, sent, wire, ctxSeq, playCalls,
                   chunkSeq, sessVars>>

ClosePlayback ==
    /\ ttsManager' = TtsClose(ttsManager)
    /\ sources' = NoSources
    /\ lastOp' = "close"
    /\ resetMark' = chunkSeq
    /\ UNCHANGED <<bargeInDetector, nowMs, obsVars, handlerVars, pcmVars, session, sent, wire, ctxSeq, playCalls,
                   chunkSeq, sessVars>>

TtsOnlyInit ==
    /\ DetectorInit(DefaultMinFrames)
    /\ TtsInit
    /\ SessionInit
    /\ HandlerInit
    /\ voiceEnabled

TtsNext ==
    \/ \E m \in TtsAudio, state \in ContextStates : PlayChunk(m, state)
    \/ \E c \in playCalls, ok \in BOOLEAN : ResumeSettled(c, ok)
    \/ \E c \in playCalls : DecodeSettled(c)
    \/ \E id \in DOMAIN sources : OnEnded(id)
    \/ ResetPlayback
    \/ ClosePlayback
    \/ Tick

SpecTts == TtsOnlyInit /\ [][TtsNext]_vars

(***************************************************************************)
(* handleMessage on its own: partial, final and conversation_cleared       *)
(* messages in any order; a text is a sequence of characters               *)
(***************************************************************************)
FinalDedupWindowMs == 2500

RECURSIVE TrimStart(_)
TrimStart(text) ==
    IF text # <<>> /\ Head(text) = " " THEN TrimStart(Tail(text)) ELSE text

RECURSIVE TrimEnd(_)
TrimEnd(text) ==
    IF text # <<>> /\ text[Len(text)] = " "
    THEN TrimEnd(SubSeq(text, 1, Len(text) - 1)) ELSE text

\* String.prototype.trim
Trim(text) == TrimEnd(TrimStart(text))

\* String.prototype.toLowerCase, on the letters the inputs use
ToLowerCase(text) ==
    [i \in 1..Len(text) |->
        CASE text[i] = "A" -> "a"
          [] text[i] = "B" -> "b"
          [] OTHER -> text[i]]

\* String.prototype.startsWith
StartsWith(text, prefix) ==
    /\ Len(prefix) <= Len(text)
    /\ SubSeq(text, 1, Len(prefix)) = prefix

\* data.original of partial messages, <<>> when absent
PartialTexts == { <<>>, <<" ">>, <<"a">>, <<"a", "b">>, <<"b", " ">> }

\* final messages: original, input_lang and output_lang ("" when absent)
FinalMessages ==
    [ original    : { <<>>, <<" ">>, <<"a", "b">>, <<" ", "A", "b">> },
      input_lang  : { "", "es" },
      output_lang : { "en" } ]

\* handleMessage, lines 35-54: the partial element after a partial message
HandlePartial(el, original) ==
    LET text        == Trim(original)
        lastPartial == IF el.attached THEN el.lastText ELSE <<>>
    IN  IF text = <<>> THEN el
        ELSE IF text = lastPartial THEN el
        ELSE IF lastPartial # <<>> /\ StartsWith(lastPartial, text) THEN el
        ELSE [attached |-> TRUE, lastText |-> text]

\* `${inLang}|${outLang}|${originalText.toLowerCase()}`, lines 66-68
FinalSignature(m) ==
    << IF m.input_lang = "" THEN "SRC" ELSE m.input_lang,
       IF m.output_lang = "" THEN "TGT" ELSE m.output_lang,
       ToLowerCase(Trim(m.original)) >>

\* mutant: the partial element is removed only when the final is displayed
HandleFinalClearsLate(h, m, now) ==
    IF Trim(m.original) = <<>>
    THEN [h EXCEPT !.outcome = "finalEmpty"]
    ELSE IF FinalSignature(m) = h.sig /\ now - h.at < FinalDedupWindowMs
    THEN [h EXCEPT !.outcome = "finalDropped"]
    ELSE [ el |-> NoElement, sig |-> FinalSignature(m), at |-> now,
           log |-> Append(h.log, [ input_lang |-> FinalSignature(m)[1],
                                   output_lang |-> FinalSignature(m)[2],
                                   text |-> Trim(m.original),
                                   at |-> now ]),
           outcome |-> "final" ]

\* mutant: a suppressed duplicate starts the window anew
HandleFinalExtendsWindow(h, m, now) ==
    IF Trim(m.original) = <<>>
    THEN [h EXCEPT !.el = NoElement, !.outcome = "finalEmpty"]
    ELSE IF FinalSignature(m) = h.sig /\ now - h.at < FinalDedupWindowMs
    THEN [h EXCEPT !.el = NoElement, !.at = now, !.outcome = "finalDropped"]
    ELSE [ el |-> NoElement, sig |-> FinalSignature(m), at |-> now,
           log |-> Append(h.log, [ input_lang |-> FinalSignature(m)[1],
                                   output_lang |-> FinalSignature(m)[2],
                                   text |-> Trim(m.original),
                                   at |-> now ]),
           outcome |-> "final" ]

\* handleMessage, lines 57-86, on the handler state h = [el, sig, at, log]:
\* the state it leaves and what became of the message; a log entry carries
\* the time it was appended at
HandleFinal(h, m, now) ==
    IF Trim(m.original) = <<>>
    THEN [h EXCEPT !.el = NoElement, !.outcome = "finalEmpty"]
    ELSE IF FinalSignature(m) = h.sig /\ now - h.at < FinalDedupWindowMs
    THEN [h EXCEPT !.el = NoElement, !.outcome = "finalDropped"]
    ELSE [ el |-> NoElement, sig |-> FinalSignature(m), at |-> now,
           log |-> Append(h.log, [ input_lang |-> FinalSignature(m)[1],
                                   output_lang |-> FinalSignature(m)[2],
                                   text |-> Trim(m.original),
                                   at |-> now ]),
           outcome |-> "final" ]

\* data.type of the messages handleMessage has a branch for
RecognisedTypes ==
    { "partial", "final", "ready", "tts_voices", "tts_audio", "tts_error",
      "tts_interrupted", "tts_barge_in", "conversation_cleared", "agent_chunk",
      "agent" }

\* messages of no known kind: type ("" when absent) and original
UnknownMessages ==
    [ type : { "", "Partial", "tts_stop" }, original : { <<"a", "b">> } ]

\* mutant: message types are matched loosely
HandleMessageLoose(h, m, now) ==
    CASE m.type \in {"partial", "Partial"} ->
            [h EXCEPT !.el = HandlePartial(h.el, m.original)]
      [] m.type = "final" ->
            HandleFinal(h, [ original |-> m.original, input_lang |-> "",
                             output_lang |-> "" ], now)
      [] m.type \in {"tts_interrupted", "tts_barge_in", "tts_stop"} ->
            [h EXCEPT !.tts = TtsReset(h.tts)]
      [] m.type = "conversation_cleared" -> [h EXCEPT !.sig = <<>>, !.at = 0]
      [] OTHER -> h

\* handleMessage, lines 33-209, on the handler state and the TTSManager
\* h = [el, sig, at, log, tts] for the branches that touch them and that
\* finish within the call; ready, tts_voices, tts_error and agent_chunk touch
\* only the page, tts_audio and agent are the actions TtsAudioMessage and
\* AgentMessage
HandleMessage(h, m, now) ==
    CASE m.type = "partial" ->
            [h EXCEPT !.el = HandlePartial(h.el, m.original)]
      [] m.type = "final" ->
            HandleFinal(h, [ original |-> m.original, input_lang |-> "",
                             output_lang |-> "" ], now)
      [] m.type \in {"tts_interrupted", "tts_barge_in"} ->
            [h EXCEPT !.tts = TtsReset(h.tts)]
      [] m.type = "conversation_cleared" -> [h EXCEPT !.sig = <<>>, !.at = 0]
      [] OTHER -> h

\* socket.onmessage with a partial message
PartialMessage(original) ==
    /\ currentPartialEl' = HandlePartial(currentPartialEl, original)
    /\ lastOp' = "partial"
    /\ lastMessage' = [type |-> "partial", original |-> original]
    /\ UNCHANGED <<bargeInDetector, nowMs, obsVars, ttsVars, sessVars, sent, wire,
                   lastFinalSignature, lastFinalAtMs, logEl, stats,
                   pcmVars, session>>

\* socket.onmessage with a final message
FinalMessage(m) ==
    /\ Len(logEl) < MaxLogEntries
    /\ LET h == HandleFinal([ el |-> currentPartialEl, sig |-> lastFinalSignature,
                              at |-> lastFinalAtMs, log |-> logEl,
                              outcome |-> "none" ], m, nowMs)
       IN  /\ currentPartialEl' = h.el
           /\ lastFinalSignature' = h.sig
           /\ lastFinalAtMs' = h.at
           /\ logEl' = h.log
           /\ lastOp' = h.outcome
    /\ lastMessage' = [type |-> "final", original |-> m.original,
                       input_lang |-> m.input_lang, output_lang |-> m.output_lang]
    /\ UNCHANGED <<bargeInDetector, nowMs, obsVars, ttsVars, sessVars, sent, wire, stats, pcmVars, session>>

\* socket.onmessage with conversation_cleared: resetMessageHistoryState()
ConversationCleared ==
    /\ lastFinalSignature' = <<>>
    /\ lastFinalAtMs' = 0
    /\ lastOp' = "other"
    /\ lastMessage' = [type |-> "conversation_cleared", original |-> <<>>]
    /\ UNCHANGED <<bargeInDetector, nowMs, obsVars, ttsVars, sessVars, sent, wire,
                   currentPartialEl, logEl, stats, pcmVars, session>>

\* socket.onmessage with a message of no known kind
UnknownMessage(m) ==
    /\ m.type \notin RecognisedTypes
    /\ LET h == HandleMessage([ el |-> currentPartialEl, sig |-> lastFinalSignature,
                                at |-> lastFinalAtMs, log |-> logEl,
                                outcome |-> "none", tts |-> ttsManager ], m, nowMs)
       IN  /\ currentPartialEl' = h.el
           /\ lastFinalSignature' = h.sig
           /\ lastFinalAtMs' = h.at
           /\ logEl' = h.log
           /\ ttsManager' = h.tts
           /\ sources' = IF h.tts.activeNodes = ttsManager.activeNodes THEN sources
                         ELSE StopNodes(sources, ttsManager.activeNodes)
    /\ lastOp' = "unknown"
    /\ lastMessage' = m
    /\ UNCHANGED <<bargeInDetector, nowMs, obsVars, ctxSeq, playCalls, chunkSeq,
                   resetMark, sessVars, sent, wire, stats, pcmVars, session>>

MessagesNext ==
    \/ \E original \in PartialTexts : PartialMessage(original)
    \/ \E m \in FinalMessages : FinalMessage(m)
    \/ ConversationCleared
    \/ ResetPlayback
    \/ \E m \in UnknownMessages : UnknownMessage(m)
    \/ Tick

\* real time passes between transcripts
DedupTick ==
    /\ nowMs + DedupStepMs <= StartMs + MaxDedupTicks * DedupStepMs
    /\ nowMs' = nowMs + DedupStepMs
    /\ lastOp' = "other"
    /\ UNCHANGED <<bargeInDetector, obsVars, ttsVars, sessVars, sent, wire, handlerVars,
                   pcmVars, session>>

\* final transcripts, conversation_cleared and the clock
DedupNext ==
    \/ \E m \in FinalMessages : FinalMessage(m)
    \/ ConversationCleared
    \/ DedupTick

(***************************************************************************)
(* getPlaybackStats on its own: timelines of one or two scheduled chunks,  *)
(* queried at any point of the audio clock                                 *)
(***************************************************************************)
\* decoded chunks: duration in ms and the length of meta.text
StatsChunks == { [duration |-> 2000, textChars |-> 40],
                 [duration |-> 600,  textChars |-> 20] }

\* the timelines playChunk builds from one or two chunks on a fresh context
StatsTimelines ==
    { <<c>> : c \in StatsChunks } \cup { <<c, d>> : c \in StatsChunks, d \in StatsChunks }

\* playChunk, lines 114-142, for each chunk of q in turn, numbered from n
RECURSIVE ScheduleAll(_, _, _)
ScheduleAll(t, q, n) ==
    IF q = <<>> THEN t
    ELSE ScheduleAll(ScheduleChunk(t, [id |-> n, duration |-> Head(q).duration,
                                       textChars |-> Head(q).textChars]),
                     Tail(q), n + 1)

\* the client with the chunks of one of the queues qs scheduled
ScheduledInit(qs) ==
    /\ DetectorInit(DefaultMinFrames)
    /\ SessionInit
    /\ HandlerInit
    /\ voiceEnabled
    /\ \E q \in qs :
          /\ ttsManager = ScheduleAll(
                 [NewTtsManager EXCEPT
                     !.context = NewAudioContext(1, DefaultSampleRate, "running")],
                 q, 1)
          /\ chunkSeq = Len(q)
    /\ sources = [i \in 1..chunkSeq |->
                    [ endAt   |-> ttsManager.chunkTimeline[i].startAt
                                    + ttsManager.chunkTimeline[i].duration,
                      stopped |-> FALSE ]]
    /\ ctxSeq = 1
    /\ playCalls = {}
    /\ resetMark = 0

StatsInit == ScheduledInit(StatsTimelines)

\* the audio clock advances while the chunks play
StatsClock ==
    /\ ttsManager.context.currentTime + StatsStepMs <= MaxStatsClock
    /\ ttsManager' = AdvanceAudio(ttsManager, StatsStepMs)
    /\ nowMs' = nowMs + StatsStepMs
    /\ lastOp' = "other"
    /\ UNCHANGED <<bargeInDetector, obsVars, ctxSeq, sources, playCalls, chunkSeq,
                   resetMark, sessVars, handlerVars, pcmVars, session, sent, wire>>

\* a call of getPlaybackStats()
QueryStats ==
    /\ stats' = GetPlaybackStats(ttsManager)
    /\ lastOp' = "stats"
    /\ UNCHANGED <<bargeInDetector, nowMs, obsVars, ttsVars, sessVars, sent, wire,
                   currentPartialEl, lastFinalSignature, lastFinalAtMs, logEl,
                   lastMessage, pcmVars, session>>

StatsNext ==
    \/ StatsClock
    \/ \E id \in DOMAIN sources : OnEnded(id)
    \/ QueryStats

SpecStats == StatsInit /\ [][StatsNext]_vars

\* handleMessage on its own starts with one chunk scheduled
MessagesInit == ScheduledInit({ <<[duration |-> 600, textChars |-> 20]>> })

SpecMessages == MessagesInit /\ [][MessagesNext]_vars

SpecDedup == MessagesInit /\ [][DedupNext]_vars

(***************************************************************************)
(* The whole client: session control, sockets, capture, playback           *)
(***************************************************************************)
\* AudioManager.stop(): the pipelines it silences are the one of its
\* processor and those running on its audio context
AudioStopPipelines(pipes, a) ==
    {p \in pipes : p.node # a.processor /\ p.ctx # a.audioContext}

\* stopStream(fromSocketClose), on the socket table socks
StopStream(socks, fromSocketClose) ==
    /\ audioManager' = AudioStop(audioManager)
    /\ pipelines' = AudioStopPipelines(pipelines, audioManager)
    /\ ttsManager' = TtsReset(TtsClose(ttsManager))
    /\ sources' = NoSources
    /\ sockets' = StopStreamSockets(socks, ws, fromSocketClose)
    /\ ws' = 0
    /\ streamState' = [starting |-> FALSE, stopping |-> FALSE]
    /\ bargeInDetector' = DetectorReset(bargeInDetector)
    /\ lastOp' = IF fromSocketClose THEN "onclose" ELSE "stopStream"
    /\ resetMark' = chunkSeq
    /\ UNCHANGED <<nowMs, obsVars, handlerVars, pcmVars, session, sent, wire, ctxSeq, playCalls, chunkSeq, startsPending,
                   audioStarts, pipeSeq, voiceEnabled, sessionFrames>>

\* startStream(), lines 387-443: after the await; the new socket is CONNECTING
StartStreamConnect(t, srcs) ==
    /\ ttsManager' = TtsReset(t)
    /\ sources' = StopNodes(srcs, t.activeNodes)
    /\ sockets' = Append(sockets, [readyState |-> "CONNECTING", handlers |-> TRUE])
    /\ ws' = Len(sockets) + 1
    /\ streamState' = [streamState EXCEPT !.starting = FALSE]
    /\ resetMark' = chunkSeq

\* toggleSession() when it ends the session
ToggleStop ==
    /\ ~streamState.starting /\ ~streamState.stopping
    /\ HasActiveSocket(sockets, ws) \/ AudioIsActive(audioManager)
    /\ StopStream(sockets, FALSE)

\* toggleSession() when it starts one: startStream() up to its await, and
\* through to its end when prepare() has nothing to wait for; at most max
\* sockets are created
ToggleStartUpTo(state, max) ==
    /\ ~streamState.starting /\ ~streamState.stopping
    /\ ~HasActiveSocket(sockets, ws) /\ ~AudioIsActive(audioManager)
    /\ Len(sockets) + startsPending < max
    /\ LET t1      == EnsureContext(ttsManager, PreferredSampleRate, ctxSeq + 1, state)
           created == t1.context.id # ttsManager.context.id
       IN  /\ created \/ state = "running"
           /\ ctxSeq' = IF created THEN ctxSeq + 1 ELSE ctxSeq
           /\ IF t1.context.state = "suspended"
              THEN /\ ttsManager' = t1
                   /\ streamState' = [streamState EXCEPT !.starting = TRUE]
                   /\ startsPending' = startsPending + 1
                   /\ sources' = IF created THEN NoSources ELSE sources
                   /\ UNCHANGED <<sockets, ws, resetMark>>
              ELSE /\ StartStreamConnect(t1, IF created THEN NoSources ELSE sources)
                   /\ UNCHANGED startsPending
    /\ lastOp' = "toggleSession"
    /\ UNCHANGED <<bargeInDetector, nowMs, obsVars, handlerVars, pcmVars, session, sent, wire, playCalls, chunkSeq, audioManager,
                   audioStarts, pipelines, pipeSeq, voiceEnabled, sessionFrames>>

ToggleStart(state) == ToggleStartUpTo(state, MaxSockets)

\* startStream() resumes after await ttsManager.prepare(16000); a rejected
\* resume is caught and logged
StartStreamResume(ok) ==
    /\ startsPending > 0
    /\ ok => (ttsManager.context # NoContext /\ ttsManager.context.state = "suspended")
    /\ startsPending' = startsPending - 1
    /\ StartStreamConnect(IF ok THEN [ttsManager EXCEPT !.context.state = "running"]
                          ELSE ttsManager, sources)
    /\ lastOp' = "startResume"
    /\ UNCHANGED <<bargeInDetector, nowMs, obsVars, handlerVars, pcmVars, session, sent, wire, ctxSeq, playCalls, chunkSeq,
                   audioManager, audioStarts, pipelines, pipeSeq, voiceEnabled,
                   sessionFrames>>

\* socket.onopen, and startAudio(socket) up to await audioManager.start
SocketOpen(s) ==
    /\ sockets[s].readyState = "CONNECTING"
    /\ IF ws # s
       THEN /\ sockets' = [sockets EXCEPT ![s].readyState = "CLOSING"]
            /\ UNCHANGED <<audioManager, audioStarts, pipeSeq>>
       ELSE /\ sockets' = [sockets EXCEPT ![s].readyState = "OPEN"]
            /\ IF AudioIsActive(audioManager)
               THEN UNCHANGED <<audioManager, audioStarts, pipeSeq>>
               ELSE /\ audioManager' = [audioManager EXCEPT
                                           !.isStarting = TRUE,
                                           !.onAudioDataCallback = s]
                    /\ audioStarts' = audioStarts \cup
                          {[id |-> pipeSeq + 1, sock |-> s, stage |-> "getUserMedia"]}
                    /\ pipeSeq' = pipeSeq + 1
    /\ lastOp' = IF ws # s THEN "openSuperseded" ELSE "open"
    /\ UNCHANGED <<bargeInDetector, nowMs, obsVars, handlerVars, pcmVars, session, sent, wire, ttsVars, ws, streamState,
                   startsPending, pipelines, voiceEnabled, sessionFrames>>

\* the server starts the closing handshake: readyState becomes CLOSING
ServerClosing(s) ==
    /\ sockets[s].readyState = "OPEN"
    /\ sockets' = [sockets EXCEPT ![s].readyState = "CLOSING"]
    /\ lastOp' = "other"
    /\ UNCHANGED <<bargeInDetector, nowMs, obsVars, handlerVars, pcmVars, session, sent, wire, ttsVars, ws, streamState,
                   startsPending, audioManager, audioStarts, pipelines, pipeSeq,
                   voiceEnabled, sessionFrames>>

\* mutant: the close handler does not look at ws.current
CloseStopsStreamOfAny(socks, cur, s) == socks[s].handlers

\* socket.onclose, lines 421-424: whether the close event of socket s gets
\* to stopStream(true)
CloseStopsStream(socks, cur, s) == socks[s].handlers /\ cur = s

\* the connection is closed, or could not be opened: socket.onclose
SocketClosed(s) ==
    /\ sockets[s].readyState # "CLOSED"
    /\ LET closed == [sockets EXCEPT ![s].readyState = "CLOSED"]
       IN  IF CloseStopsStream(sockets, ws, s)
           THEN StopStream(closed, TRUE)
           ELSE /\ sockets' = closed
                /\ lastOp' = "closeIgnored"
                /\ UNCHANGED <<bargeInDetector, nowMs, obsVars, handlerVars, pcmVars, session, sent, wire, ttsVars, ws,
                               streamState, startsPending, audioManager, audioStarts,
                               pipelines, pipeSeq, voiceEnabled, sessionFrames>>

\* startAudio()'s catch, lines 466-469, after audioManager.start threw
StartAudioFailed(socks, a) ==
    IF ws = a.sock /\ socks[a.sock].readyState \in {"CONNECTING", "OPEN"}
    THEN [socks EXCEPT ![a.sock].readyState = "CLOSING"]
    ELSE socks

\* AudioManager.start(), lines 34-48: getUserMedia settles
GetUserMediaSettled(a, ok) ==
    /\ a \in audioStarts
    /\ a.stage = "getUserMedia"
    /\ IF ok
       THEN /\ audioManager' = [audioManager EXCEPT !.stream = a.id,
                                                    !.audioContext = a.id]
            /\ audioStarts' = (audioStarts \ {a}) \cup {[a EXCEPT !.stage = "addModule"]}
            /\ UNCHANGED <<pipelines, sockets>>
       ELSE /\ audioManager' = AudioStop(audioManager)
            /\ pipelines' = AudioStopPipelines(pipelines, audioManager)
            /\ audioStarts' = audioStarts \ {a}
            /\ sockets' = StartAudioFailed(sockets, a)
    /\ lastOp' = "other"
    /\ UNCHANGED <<bargeInDetector, nowMs, obsVars, handlerVars, pcmVars, session, sent, wire, ttsVars, ws, streamState,
                   startsPending, pipeSeq, voiceEnabled, sessionFrames>>

\* new AudioWorkletNode(this.audioContext, 'pcm-processor'), line 51, in the
\* start() call a: it needs a context, and the module registered on it, which
\* the start() call that made the context is still waiting for when it is
\* among the suspended ones
WorkletNodeBuilds(am, starts, a) ==
    /\ am.audioContext # 0
    /\ \A b \in starts \ {a} : b.id # am.audioContext

\* AudioManager.start(), lines 48-83: addModule settles; the worklet node is
\* built on whatever this.audioContext is by then, and when that throws the
\* call goes into the catch
AddModuleSettled(a, ok) ==
    /\ a \in audioStarts
    /\ a.stage = "addModule"
    /\ audioStarts' = audioStarts \ {a}
    /\ IF ok /\ WorkletNodeBuilds(audioManager, audioStarts, a)
       THEN /\ audioManager' = [audioManager EXCEPT !.processor = a.id,
                                                    !.isStarting = FALSE]
            /\ pipelines' = pipelines \cup
                  {[node |-> a.id, ctx |-> audioManager.audioContext,
                    sock |-> a.sock]}
            /\ UNCHANGED sockets
       ELSE /\ audioManager' = AudioStop(audioManager)
            /\ pipelines' = AudioStopPipelines(pipelines, audioManager)
            /\ sockets' = StartAudioFailed(sockets, a)
    /\ lastOp' = "other"
    /\ UNCHANGED <<bargeInDetector, nowMs, obsVars, handlerVars, pcmVars, session, sent, wire, ttsVars, ws, streamState,
                   startsPending, pipeSeq, voiceEnabled, sessionFrames>>

\* a capture pipeline delivers a frame: workletNode.port.onmessage, the audio
\* callback of startAudio and maybeTriggerBargeIn
AudioFrame(p, f) ==
    /\ p \in pipelines
    /\ audioManager.onAudioDataCallback # 0
    /\ sessionFrames < MaxSessionFrames
    /\ LET speaking == IsSpeaking(ttsManager)
           out      == Process(bargeInDetector, f, speaking, nowMs)
       IN  /\ bargeInDetector' = out.det
           /\ ObserveCall(bargeInDetector, f, speaking, out)
           /\ IF out.result.triggered
              THEN /\ ttsManager' = SendImmediateBargeIn(ttsManager, sockets, ws)
                   /\ IF BargeInSends(sockets, ws)
                      THEN /\ sources' = StopNodes(sources, ttsManager.activeNodes)
                           /\ resetMark' = chunkSeq
                           /\ sent' = Append(sent, BargeInMessage(ttsManager,
                                                                  out.result.threshold))
                      ELSE UNCHANGED <<sources, resetMark, sent>>
              ELSE UNCHANGED <<ttsManager, sources, resetMark, sent>>
           /\ wire' = wire \o FrameSends(sockets, ws, audioManager.onAudioDataCallback,
                                         f, out.result.triggered)
    /\ sessionFrames' = sessionFrames + 1
    /\ lastOp' = "frame"
    /\ UNCHANGED <<nowMs, ctxSeq, playCalls, chunkSeq, sockets, ws, streamState,
                   startsPending, audioManager, audioStarts, pipelines, pipeSeq,
                   voiceEnabled, handlerVars, pcmVars, session>>

\* a message event of socket s reaches socket.onmessage, lines 431-434
Dispatches(socks, s) ==
    /\ socks[s].readyState = "OPEN"
    /\ socks[s].handlers

\* socket.onmessage with a tts_audio message: playTtsChunk
TtsAudioMessage(s, m, state) ==
    /\ Dispatches(sockets, s)
    /\ voiceEnabled
    /\ PlayChunkUpTo(m, state, MaxSessionChunks)

\* socket.onmessage with tts_interrupted or tts_barge_in: resetTtsPlayback
TtsStopMessage(s) ==
    /\ Dispatches(sockets, s)
    /\ ResetPlayback

\* socket.onmessage with an agent message: the streaming element goes, the
\* response or the error is appended to the log, and with status ok and voice
\* enabled playback is reset
AgentMessage(s, status) ==
    /\ Dispatches(sockets, s)
    /\ IF status = "ok" /\ voiceEnabled
       THEN /\ ttsManager' = TtsReset(ttsManager)
            /\ sources' = StopNodes(sources, ttsManager.activeNodes)
            /\ resetMark' = chunkSeq
       ELSE UNCHANGED <<ttsManager, sources, resetMark>>
    /\ lastMessage' = [type |-> "agent", original |-> <<>>, socket |-> s]
    /\ lastOp' = "agent"
    /\ UNCHANGED <<bargeInDetector, nowMs, obsVars, currentPartialEl, lastFinalSignature,
                   lastFinalAtMs, logEl, stats, pcmVars, session, sent, wire, ctxSeq,
                   playCalls, chunkSeq, sessVars>>

\* the voice checkbox changes; unchecking it resets playback
VoiceToggle ==
    /\ voiceEnabled' = ~voiceEnabled
    /\ IF voiceEnabled
       THEN /\ ttsManager' = TtsReset(ttsManager)
            /\ sources' = StopNodes(sources, ttsManager.activeNodes)
            /\ resetMark' = chunkSeq
       ELSE UNCHANGED <<ttsManager, sources, resetMark>>
    /\ lastOp' = "other"
    /\ UNCHANGED <<bargeInDetector, nowMs, obsVars, handlerVars, pcmVars, session, sent, wire, ctxSeq, playCalls, chunkSeq,
                   sockets, ws, streamState, startsPending, audioManager,
                   audioStarts, pipelines, pipeSeq, sessionFrames>>

Init ==
    /\ DetectorInit(DefaultMinFrames)
    /\ TtsInit
    /\ SessionInit
    /\ HandlerInit

Next ==
    \/ ToggleStop
    \/ \E state \in ContextStates : ToggleStart(state)
    \/ \E ok \in BOOLEAN : StartStreamResume(ok)
    \/ \E s \in DOMAIN sockets : SocketOpen(s)
    \/ \E s \in DOMAIN sockets : ServerClosing(s)
    \/ \E s \in DOMAIN sockets : SocketClosed(s)
    \/ \E a \in audioStarts, ok \in BOOLEAN : GetUserMediaSettled(a, ok)
    \/ \E a \in audioStarts, ok \in BOOLEAN : AddModuleSettled(a, ok)
    \/ \E p \in pipelines, f \in SessionFrames : AudioFrame(p, f)
    \/ \E s \in DOMAIN sockets, m \in TtsAudio, state \in ContextStates :
          TtsAudioMessage(s, m, state)
    \/ \E s \in DOMAIN sockets : TtsStopMessage(s)
    \/ \E s \in DOMAIN sockets, status \in AgentStatuses : AgentMessage(s, status)
    \/ \E c \in playCalls, ok \in BOOLEAN : ResumeSettled(c, ok)
    \/ \E c \in playCalls : DecodeSettled(c)
    \/ \E id \in DOMAIN sources : OnEnded(id)
    \/ VoiceToggle
    \/ Tick

Spec == Init /\ [][Next]_vars

(***************************************************************************)
(* Barge-in during one session: the session starts, synthesized audio      *)
(* arrives and plays, the microphone is granted and capture frames reach   *)
(* the detector, the server may start closing the socket                   *)
(***************************************************************************)
BargeInNext ==
    \/ \E state \in ContextStates : ToggleStart(state)
    \/ \E ok \in BOOLEAN : StartStreamResume(ok)
    \/ \E s \in DOMAIN sockets : SocketOpen(s)
    \/ \E s \in DOMAIN sockets : ServerClosing(s)
    \/ \E a \in audioStarts : GetUserMediaSettled(a, TRUE)
    \/ \E a \in audioStarts : AddModuleSettled(a, TRUE)
    \/ \E p \in pipelines, f \in SessionFrames : AudioFrame(p, f)
    \/ \E s \in DOMAIN sockets, m \in TtsAudio, state \in ContextStates :
          TtsAudioMessage(s, m, state)
    \/ \E c \in playCalls, ok \in BOOLEAN : ResumeSettled(c, ok)
    \/ \E c \in playCalls : DecodeSettled(c)
    \/ \E id \in DOMAIN sources : OnEnded(id)
    \/ Tick

\* the voice checkbox is checked throughout
BargeInInit ==
    /\ Init
    /\ voiceEnabled

SpecBargeIn == BargeInInit /\ [][BargeInNext]_vars

(***************************************************************************)
(* One session and its end: the session starts, synthesized audio arrives  *)
(* and is scheduled, the microphone is granted and the talker speaks over  *)
(* the playback, and the session is ended by the user or by the close      *)
(* event of its socket                                                     *)
(***************************************************************************)
\* a capture frame well above every threshold
LoudFrame == <<2294, -2294>>

TeardownNext ==
    \/ ToggleStop
    \/ \E state \in ContextStates : ToggleStart(state)
    \/ \E ok \in BOOLEAN : StartStreamResume(ok)
    \/ \E s \in DOMAIN sockets : SocketOpen(s)
    \/ \E s \in DOMAIN sockets : SocketClosed(s)
    \/ \E a \in audioStarts : GetUserMediaSettled(a, TRUE)
    \/ \E a \in audioStarts : AddModuleSettled(a, TRUE)
    \/ \E p \in pipelines : AudioFrame(p, LoudFrame)
    \/ \E s \in DOMAIN sockets, m \in TtsAudio, state \in ContextStates :
          TtsAudioMessage(s, m, state)
    \/ \E c \in playCalls : DecodeSettled(c)

SpecTeardown == BargeInInit /\ [][TeardownNext]_vars

(***************************************************************************)
(* Connections only: clicks on the session button, the awaits of           *)
(* startStream and of AudioManager.start, and the events of the sockets    *)
(***************************************************************************)
ConnectionUpTo(max) ==
    \/ ToggleStop
    \/ \E state \in ContextStates : ToggleStartUpTo(state, max)
    \/ \E ok \in BOOLEAN : StartStreamResume(ok)
    \/ \E s \in DOMAIN sockets : SocketOpen(s)
    \/ \E s \in DOMAIN sockets : ServerClosing(s)
    \/ \E s \in DOMAIN sockets : SocketClosed(s)
    \/ \E a \in audioStarts, ok \in BOOLEAN : GetUserMediaSettled(a, ok)
    \/ \E a \in audioStarts, ok \in BOOLEAN : AddModuleSettled(a, ok)

ConnectionNext == ConnectionUpTo(MaxConnections)

SpecConnection == BargeInInit /\ [][ConnectionNext]_vars

\* the same with fewer connections
DropNext == ConnectionUpTo(MaxDrops)

SpecDrop == BargeInInit /\ [][DropNext]_vars

(***************************************************************************)
(* Sockets replaced while they connect: clicks, the awaits of startStream, *)
(* open and close events, the microphone granted or refused                *)
(***************************************************************************)
SupersededNext ==
    \/ ToggleStop
    \/ \E state \in ContextStates : ToggleStartUpTo(state, MaxConnections)
    \/ \E ok \in BOOLEAN : StartStreamResume(ok)
    \/ \E s \in DOMAIN sockets : SocketOpen(s)
    \/ \E s \in DOMAIN sockets : SocketClosed(s)
    \/ \E a \in audioStarts, ok \in BOOLEAN : GetUserMediaSettled(a, ok)

SpecSuperseded == BargeInInit /\ [][SupersededNext]_vars

(***************************************************************************)
(* A session stopped by the user or by the socket closing while the        *)
(* microphone is being granted, frames are captured, the server sends      *)
(* speech and agent messages                                               *)
(***************************************************************************)
\* a tts_audio message at the default sample rate
SpokenChunk == [sampleRate |-> 0, duration |-> 600, textChars |-> 40]

CaptureNext ==
    \/ ToggleStop
    \/ ToggleStart("running")
    \/ \E s \in DOMAIN sockets : SocketOpen(s)
    \/ \E s \in DOMAIN sockets : ServerClosing(s)
    \/ \E s \in DOMAIN sockets : SocketClosed(s)
    \/ \E a \in audioStarts : GetUserMediaSettled(a, TRUE)
    \/ \E a \in audioStarts : AddModuleSettled(a, TRUE)
    \/ \E p \in pipelines : AudioFrame(p, LoudFrame)
    \/ \E s \in DOMAIN sockets : AgentMessage(s, "error")
    \/ \E s \in DOMAIN sockets : TtsAudioMessage(s, SpokenChunk, "running")
    \/ \E c \in playCalls : DecodeSettled(c)

SpecCapture == BargeInInit /\ [][CaptureNext]_vars

(***************************************************************************)
(* The capture worklet on its own: process() called with blocks of any     *)
(* size                                                                    *)
(***************************************************************************)
WorkletProcess(inputChannel) ==
    /\ Len(fed) + Len(inputChannel) <= MaxSamples
    /\ LET w == PcmProcess([proc |-> pcmProcessor, out |-> posted], inputChannel)
       IN  /\ pcmProcessor' = w.proc
           /\ posted' = w.out
    /\ fed' = fed \o inputChannel
    /\ lastOp' = "worklet"
    /\ UNCHANGED <<bargeInDetector, nowMs, obsVars, ttsVars, sessVars, sent, wire,
                   handlerVars, session>>

WorkletNext == \E inputChannel \in Blocks(MaxBlock) : WorkletProcess(inputChannel)

SpecWorklet == BargeInInit /\ [][WorkletNext]_vars

(***************************************************************************)
(* The Orchestrator on its own: transcripts, the silence timer, the        *)
(* generation stream, playback completion and barge-in signals             *)
(***************************************************************************)
\* texts of Final transcripts
FinalTexts == { <<"h", "i">>, <<" ", "u">> }

\* chunks of the generation stream
GenChunks == { <<"o", "k">>, <<"!">> }

\* playedTextPercent of a barge-in, in tenths of a percent
PlayedPercents == { 0, 500, 1000 }

OrchStep(next, op) ==
    /\ session' = next
    /\ lastOp' = op
    /\ UNCHANGED <<bargeInDetector, nowMs, obsVars, ttsVars, sessVars, sent, wire,
                   handlerVars, pcmVars>>

OrchFinal(text, pct) ==
    /\ session.finals < MaxFinals
    /\ OrchStep(FinalArrives(session, text, pct, nowMs),
                IF session.state \in {"Flushing", "Speaking"}
                THEN "bargeInFinal" ELSE "accumulate")

OrchAcousticBargeIn(pct) ==
    /\ session.state \in {"Flushing", "Speaking"}
    /\ OrchStep(BargeIn(session, <<>>, pct, nowMs), "bargeInAcoustic")

OrchTimerFires ==
    /\ session.timer # 0
    /\ nowMs >= session.timer
    /\ OrchStep(Flush(session), "timer")

OrchGenerationChunk(c) ==
    /\ session.state = "Flushing"
    /\ session.handles[session.current].open
    /\ ~session.handles[session.current].cancelled
    /\ Len(session.handles[session.current].chunksEmitted) + Len(c) <= MaxAgentChars
    /\ OrchStep([session EXCEPT !.handles[session.current].chunksEmitted = @ \o c],
                "chunk")

OrchGenerationCompletes ==
    /\ session.state = "Flushing"
    /\ session.handles[session.current].open
    /\ ~session.handles[session.current].cancelled
    /\ OrchStep(GenerationCompletes(session), "complete")

OrchGenerationFails ==
    /\ session.state = "Flushing"
    /\ session.handles[session.current].open
    /\ ~session.handles[session.current].cancelled
    /\ OrchStep(GenerationFails(session), "failed")

OrchPlaybackCompletes ==
    /\ session.state = "Speaking"
    /\ OrchStep(PlaybackCompletes(session), "played")

OrchHandleClosed(i) ==
    /\ session.handles[i].open
    /\ session.handles[i].cancelled
    /\ OrchStep(HandleClosed(session, i), "closed")

OrchTick ==
    /\ nowMs + SilenceStepMs <= StartMs + MaxOrchTicks * SilenceStepMs
    /\ nowMs' = nowMs + SilenceStepMs
    /\ lastOp' = "other"
    /\ UNCHANGED <<bargeInDetector, obsVars, ttsVars, sessVars, sent, wire, handlerVars,
                   pcmVars, session>>

OrchNext ==
    \/ \E text \in FinalTexts, pct \in PlayedPercents : OrchFinal(text, pct)
    \/ \E pct \in PlayedPercents : OrchAcousticBargeIn(pct)
    \/ OrchTimerFires
    \/ \E c \in GenChunks : OrchGenerationChunk(c)
    \/ OrchGenerationCompletes
    \/ OrchGenerationFails
    \/ OrchPlaybackCompletes
    \/ \E i \in DOMAIN session.handles : OrchHandleClosed(i)
    \/ OrchTick

SpecOrchestrator == BargeInInit /\ [][OrchNext]_vars

(***************************************************************************)
(* Claims about the detector                                               *)
(***************************************************************************)
JustProcessed == lastOp = "process" /\ lastResult.state # "none"

\* the run counter as it stood after the last frame's update, before a
\* trigger cleared it
CounterAfterUpdate ==
    IF lastCall.rms >= lastResult.threshold
    THEN lastCall.pre + 1
    ELSE Max2(0, lastCall.pre - 1)

\* C2: process returns triggered=true only when the run counter has reached
\* minFrames and cooldownMs has elapsed since the previous trigger, so any two
\* triggers are at least cooldownMs apart; right after a trigger the run
\* counter is 0 and the cooldown clock is the trigger time.
C2_TriggerNeedsRunAndCooldown ==
    /\ \A i, j \in 1..Len(trigLog) :
          i < j => trigLog[j].at - trigLog[i].at >= CooldownMs
    /\ trigLog # <<>> => bargeInDetector.lastTriggeredAt = trigLog[Len(trigLog)].at
    /\ (JustProcessed /\ lastResult.triggered) =>
          /\ lastCall.speaking
          /\ CounterAfterUpdate >= bargeInDetector.minFrames
          /\ bargeInDetector.speechFrames = 0

C2_Witness == Len(trigLog) >= 2

\* C3: process(frame, isTtsSpeaking=false) returns triggered=false with state
\* "silence" and leaves speechFrames at 0, whatever the frame's RMS.
C3_IdleNeverTriggers ==
    (JustProcessed /\ ~lastCall.speaking) =>
        /\ ~lastResult.triggered
        /\ lastResult.state = "silence"
        /\ bargeInDetector.speechFrames = 0

C3_Witness ==
    /\ JustProcessed /\ ~lastCall.speaking
    /\ lastCall.pre > 0
    /\ lastCall.rms >= lastResult.threshold

\* C4 as stated: during playback, state "trigger" or triggered=true is
\* reported only on a frame completing a run of at least minFrames
\* consecutive frames at or above the threshold.
C4_TriggerOnlyAfterConsecutiveRun ==
    (JustProcessed /\ lastCall.speaking
       /\ (lastResult.state = "trigger" \/ lastResult.triggered)) =>
        runLen >= bargeInDetector.minFrames

\* C4 as amended: during playback, state "trigger" is reported only on a frame
\* at or above the threshold, and state "trigger" or triggered=true only once
\* at least minFrames frames at or above the threshold (consecutive or not)
\* have arrived since the run counter was last cleared by a trigger or by a
\* frame without playback.
C4_TriggerOnlyAfterEnoughLoudFrames ==
    (JustProcessed /\ lastCall.speaking) =>
        /\ lastResult.state = "trigger" =>
              /\ lastCall.rms >= lastResult.threshold
              /\ aboveCount >= bargeInDetector.minFrames
        /\ lastResult.triggered => aboveCount >= bargeInDetector.minFrames

C4_Witness ==
    /\ JustProcessed /\ lastCall.speaking
    /\ lastResult.state = "trigger"
    /\ runLen < bargeInDetector.minFrames

\* C5: from a fresh detector, with playback on and every frame at 2 x
\* maxDynamicThreshold, the first trigger is on the minFrames-th frame and no
\* earlier, and every later trigger is at least cooldownMs after it.
C5_LoudRunTriggersOnMinFramesth ==
    loudOnly =>
        /\ frameCount < bargeInDetector.minFrames => trigLog = <<>>
        /\ frameCount >= bargeInDetector.minFrames =>
              /\ trigLog # <<>>
              /\ trigLog[1].frameNo = bargeInDetector.minFrames
        /\ frameCount = bargeInDetector.minFrames => Len(trigLog) = 1
        /\ \A i \in 2..Len(trigLog) :
              trigLog[i].at - trigLog[1].at >= CooldownMs

C5_Witness ==
    /\ loudOnly
    /\ bargeInDetector.minFrames >= 2
    /\ frameCount > bargeInDetector.minFrames
    /\ Len(trigLog) = 2

\* C6: from a fresh detector, while every frame has RMS below baseThreshold
\* and playback is on, triggered is false on every frame.
C6_QuietFramesNeverTrigger ==
    quietOnly => (trigLog = <<>> /\ ~lastResult.triggered)

C6_Witness ==
    /\ quietOnly
    /\ frameCount >= 3
    /\ lastCall.rms * 10 >= BaseThreshold * NearTenths

\* C7: ambientRmsEma changes only in a process call with isTtsSpeaking=false
\* whose frame RMS does not exceed visMax.
C7_AmbientOnlyLearnsIdleFramesUnderCeiling ==
    [][ bargeInDetector'.ambientRmsEma # bargeInDetector.ambientRmsEma =>
          /\ lastOp' = "process"
          /\ frameCount' = frameCount + 1
          /\ ~lastCall'.speaking
          /\ lastCall'.rms <= VisMax ]_vars

C7_Witness ==
    /\ bargeInDetector.ambientRmsEma # InitialAmbient
    /\ JustProcessed /\ ~lastCall.speaking /\ lastCall.rms > VisMax

\* C8: the threshold a process call returns is clamp(max(baseThreshold,
\* ambientRmsEma * noiseMultiplier), minDynamicThreshold, maxDynamicThreshold)
\* of the ambient average as it stands when the call returns, hence within
\* [minDynamicThreshold, maxDynamicThreshold].
C8_ThresholdIsClampedAdaptive ==
    JustProcessed =>
        LET adaptive == (bargeInDetector.ambientRmsEma * NoiseMultiplierTenths) \div 10
            wanted   == Max2(BaseThreshold, adaptive)
        IN  /\ lastResult.threshold =
                 (IF wanted > MaxDynamicThreshold THEN MaxDynamicThreshold
                  ELSE IF wanted < MinDynamicThreshold THEN MinDynamicThreshold
                  ELSE wanted)
            /\ lastResult.threshold >= MinDynamicThreshold
            /\ lastResult.threshold <= MaxDynamicThreshold

C8_Witness ==
    /\ JustProcessed
    /\ lastResult.threshold = MaxDynamicThreshold
    /\ bargeInDetector.ambientRmsEma * NoiseMultiplierTenths > MaxDynamicThreshold * 10

(***************************************************************************)
(* Claims about the TTSManager                                             *)
(***************************************************************************)
\* C10: every chunk playChunk schedules starts at max(now + bufferSeconds,
\* end of the previously scheduled chunk), so the chunks of chunkTimeline are
\* in non-decreasing start order and never overlap, also after a sample-rate
\* change handled by _ensureContext.
C10_TimelineOrderedWithoutOverlap ==
    LET tl == ttsManager.chunkTimeline
        n  == Len(tl)
    IN  /\ \A i \in 1..(n - 1) :
              /\ tl[i + 1].startAt >= tl[i].startAt
              /\ tl[i + 1].startAt >= tl[i].startAt + tl[i].duration
        /\ (lastOp = "schedule" /\ n >= 1) =>
              tl[n].startAt =
                  Max2(ttsManager.context.currentTime + BufferMs,
                       IF n >= 2 THEN tl[n - 1].startAt + tl[n - 1].duration ELSE 0)

(***************************************************************************)
(* Claims about the session: capture frames, the socket and playback       *)
(***************************************************************************)
\* C1: whenever maybeTriggerBargeIn gets triggered = true from
\* BargeInRmsDetector.process, all scheduled playback is stopped, so
\* isSpeaking() is false when maybeTriggerBargeIn returns, whatever the state
\* of the socket (CONNECTING, OPEN, CLOSING, CLOSED or null).
C1_TriggerStopsPlayback ==
    (lastOp = "frame" /\ lastResult.triggered) => ~IsSpeaking(ttsManager)

\* C9: after stopStream has called bargeInDetector.reset(), the detector's run
\* counter, ambient-noise average, current threshold and cooldown clock equal
\* those of a freshly constructed detector.
C9_DetectorFreshAfterStop ==
    lastOp \in {"stopStream", "onclose"} => bargeInDetector = NewDetector(DefaultMinFrames)

(***************************************************************************)
(* Claims about playback: ordering, statistics, reset                      *)
(***************************************************************************)
\* C11: chunks are scheduled in the order their tts_audio messages arrived,
\* also with several playChunk calls in flight that resume in any order: the
\* arrival numbers of the chunks of chunkTimeline are increasing.
C11_ScheduledInArrivalOrder ==
    \A i \in 1..(Len(ttsManager.chunkTimeline) - 1) :
        ttsManager.chunkTimeline[i].id < ttsManager.chunkTimeline[i + 1].id

\* C18: after reset() no chunk whose tts_audio message was received before the
\* reset is applied to the timeline, so with no later message played
\* isSpeaking() stays false.
C18_NoStaleChunkAfterReset ==
    /\ \A i \in 1..Len(ttsManager.chunkTimeline) :
           ttsManager.chunkTimeline[i].id > resetMark
    /\ (resetMark > 0 /\ chunkSeq = resetMark) => ~IsSpeaking(ttsManager)

\* the timeline b is the timeline a with, at most, more ended flags set
SameChunks(a, b) ==
    /\ Len(a) = Len(b)
    /\ \A i \in 1..Len(a) :
          /\ [b[i] EXCEPT !.ended = FALSE] = [a[i] EXCEPT !.ended = FALSE]
          /\ a[i].ended => b[i].ended

AllEnded(t) ==
    /\ t.chunkTimeline # <<>>
    /\ \A i \in 1..Len(t.chunkTimeline) : t.chunkTimeline[i].ended

\* C12: for a fixed timeline (no chunk added, no reset), played_audio_seconds
\* never decreases as the context's clock advances and as ended flags flip to
\* true, and it equals total_audio_seconds once every chunk has ended.
C12_PlayedNeverDecreases ==
    /\ [][ ( /\ ttsManager.chunkTimeline # <<>>
             /\ SameChunks(ttsManager.chunkTimeline, ttsManager'.chunkTimeline)
             /\ ttsManager.context # NoContext
             /\ ttsManager'.context.id = ttsManager.context.id )
           => GetPlaybackStats(ttsManager').played_audio_seconds
                 >= GetPlaybackStats(ttsManager).played_audio_seconds ]_vars
    /\ [](AllEnded(ttsManager) =>
            GetPlaybackStats(ttsManager).played_audio_seconds
               = GetPlaybackStats(ttsManager).total_audio_seconds)

\* two chunks were scheduled, the clock passed the end of both, both ended
C12_Witness ==
    /\ Len(ttsManager.chunkTimeline) = 2
    /\ AllEnded(ttsManager)
    /\ GetPlaybackStats(ttsManager).played_audio_seconds = 600

\* what a chunk has played of its duration at clock now: all of it once it
\* ended or the clock passed its end, nothing up to its start, else the elapsed
\* part (ms)
PlayedOf(chunk, now) ==
    IF chunk.ended \/ now >= chunk.startAt + chunk.duration THEN chunk.duration
    ELSE IF now <= chunk.startAt THEN 0
    ELSE now - chunk.startAt

RECURSIVE SumPlayedOf(_, _)
SumPlayedOf(timeline, now) ==
    IF timeline = <<>> THEN 0
    ELSE PlayedOf(Head(timeline), now) + SumPlayedOf(Tail(timeline), now)

\* part / whole in tenths of a percent, rounded to the nearest
RatioTenths(part, whole) == (part * 2000 + whole) \div (2 * whole)

\* C13: getPlaybackStats counts a chunk fully when it ended or the clock is past
\* its end, not at all when the clock is at or before its start, otherwise in
\* proportion elapsed/duration, for audio seconds and for text characters; a
\* single chunk of duration 2 s and 40 characters queried 1 s after its start
\* gives played_text_percent = 50 and playback_percent = 50.
C13_ChunksCountProrated ==
    lastOp = "stats" =>
        LET tl  == ttsManager.chunkTimeline
            now == ttsManager.context.currentTime
        IN  /\ stats.played_audio_seconds = SumPlayedOf(tl, now)
            /\ stats.total_audio_seconds = ttsManager.totalAudioSeconds
            /\ stats.playback_percent =
                  RatioTenths(SumPlayedOf(tl, now), ttsManager.totalAudioSeconds)
            /\ Len(tl) = 1 =>
                  stats.played_text_percent = RatioTenths(PlayedOf(tl[1], now), tl[1].duration)
            /\ ( /\ Len(tl) = 1 /\ tl[1].duration = 2000 /\ tl[1].textChars = 40
                 /\ ~tl[1].ended /\ now = tl[1].startAt + 1000 )
               => (stats.played_text_percent = 500 /\ stats.playback_percent = 500)

\* the single chunk of 2 s and 40 characters, queried 1 s after its start
C13_Witness ==
    /\ lastOp = "stats"
    /\ Len(ttsManager.chunkTimeline) = 1
    /\ ttsManager.chunkTimeline[1].duration = 2000
    /\ ttsManager.chunkTimeline[1].textChars = 40
    /\ ttsManager.context.currentTime = ttsManager.chunkTimeline[1].startAt + 1000
    /\ stats.played_text_percent = 500
    /\ stats.playback_percent = 500
    /\ stats.played_audio_seconds = 1000

\* C14: immediately after reset() every scheduled chunk is halted and the
\* timeline is cleared: activeNodes and chunkTimeline are empty, the totals and
\* nextPlayTime are 0, isSpeaking() is false and getPlaybackStats() is all zeros.
C14_ResetClearsPlayback ==
    lastOp = "reset" =>
        /\ ttsManager.activeNodes = <<>>
        /\ ttsManager.chunkTimeline = <<>>
        /\ ttsManager.totalAudioSeconds = 0
        /\ ttsManager.totalTextChars = 0
        /\ ttsManager.nextPlayTime = 0
        /\ ~IsSpeaking(ttsManager)
        /\ GetPlaybackStats(ttsManager) = NoStats
        /\ \A id \in DOMAIN sources : sources[id].stopped

\* reset() ran in the middle of a playing chunk
C14_Witness ==
    /\ lastOp = "reset"
    /\ ttsManager.context.currentTime > 0
    /\ \E id \in DOMAIN sources :
          sources[id].stopped /\ sources[id].endAt > ttsManager.context.currentTime

\* C16: playback cancellation is idempotent: a second reset() right after a
\* first leaves the TTSManager, and the sources it stopped, exactly as the
\* first left them.
C16_ResetIsIdempotent ==
    lastOp = "reset" =>
        /\ TtsReset(ttsManager) = ttsManager
        /\ StopNodes(sources, ttsManager.activeNodes) = sources

\* the first reset() stopped two scheduled chunks
C16_Witness ==
    /\ lastOp = "reset"
    /\ Cardinality({id \in DOMAIN sources : sources[id].stopped}) = 2

\* C15: playback is reset only by barge-in handling (the acoustic trigger of a
\* capture frame, a tts_barge_in or tts_interrupted message) and by session
\* termination (stopStream): no other event empties a timeline that holds
\* scheduled chunks.
C15_ResetOnlyOnBargeInOrStop ==
    [][ (ttsManager.chunkTimeline # <<>> /\ ttsManager'.chunkTimeline = <<>>)
        => lastOp' \in {"frame", "reset", "stopStream", "onclose"} ]_vars

\* C17: the onended callback of a chunk that reset() force-stopped changes
\* nothing of the TTSManager: not chunkTimeline, the totals or nextPlayTime,
\* nor the activeNodes entries and ended flags of chunks scheduled after that
\* reset.
C17_StaleEndedIsHarmless ==
    [][ ( /\ lastOp' = "ended"
          /\ \E id \in DOMAIN sources :
                sources[id].stopped /\ id \notin DOMAIN sources' )
        => ttsManager' = ttsManager ]_vars

\* chunk 1 was stopped by reset(), chunk 2 was scheduled after it, and the
\* ended event of chunk 1 has then been delivered
C17_Witness ==
    /\ lastOp = "ended"
    /\ resetMark = 1
    /\ 1 \notin DOMAIN sources
    /\ ttsManager.activeNodes = <<2>>
    /\ Len(ttsManager.chunkTimeline) = 1
    /\ ttsManager.chunkTimeline[1].id = 2
    /\ ~ttsManager.chunkTimeline[1].ended

\* C19: on an acoustic barge-in the statistics are snapshotted before playback
\* is reset: the barge_in message carries the triggering frame's threshold
\* (to four decimals) and the four statistics of the timeline as it was before
\* reset() cleared it, never the zeros of the cleared timeline when chunks had
\* been scheduled.
C19_BargeInCarriesStatsBeforeReset ==
    [][ Len(sent') > Len(sent) =>
          LET msg == sent'[Len(sent')]
          IN  /\ lastOp' = "frame"
              /\ lastResult'.triggered
              /\ msg.barge_in_threshold = ToFixed4(lastResult'.threshold)
              /\ msg.stats = GetPlaybackStats(ttsManager)
              /\ ttsManager.chunkTimeline # <<>> => msg.stats.total_audio_seconds > 0
              /\ ttsManager'.chunkTimeline = <<>> ]_vars

\* a barge_in message was sent in the middle of a playing chunk
C19_Witness ==
    /\ sent # <<>>
    /\ sent[1].stats.played_audio_seconds > 0
    /\ sent[1].stats.played_audio_seconds < sent[1].stats.total_audio_seconds
    /\ sent[1].stats.played_text_percent > 0

(***************************************************************************)
(* Claims about handleMessage                                              *)
(***************************************************************************)
\* C20: after the client has handled any final message no partial transcript
\* remains displayed (currentPartialEl is null), also when the final's text is
\* empty or the final is dropped as a duplicate.
C20_FinalClearsPartial ==
    lastOp \in {"final", "finalEmpty", "finalDropped"} => currentPartialEl = NoElement

\* a final was dropped as a duplicate of the one displayed before it
C20_Witness ==
    /\ lastOp = "finalDropped"
    /\ Len(logEl) = 1
    /\ currentPartialEl = NoElement

\* C21: partial transcripts supersede each other: after a partial message with
\* non-empty text has been handled, the partial on display is the text of that
\* message, whatever was displayed before it (also when the new text is a
\* shorter prefix of the displayed one).
C21_LatestPartialDisplayed ==
    ( lastOp = "partial" /\ Trim(lastMessage.original) # <<>> )
        => ( currentPartialEl.attached
             /\ currentPartialEl.lastText = Trim(lastMessage.original) )

(***************************************************************************)
(* Claims about the session                                                *)
(***************************************************************************)
\* C22: when stopStream returns, called by the user or by the socket's close
\* event, ws.current is null, the AudioManager is inactive, the TTS context is
\* closed with an empty timeline and no active nodes, the detector's run
\* counter is 0 and streamState.starting and streamState.stopping are false.
C22_StopStreamTearsDown ==
    lastOp \in {"stopStream", "onclose"} =>
        /\ ws = 0
        /\ ~AudioIsActive(audioManager)
        /\ ttsManager.context = NoContext
        /\ ttsManager.chunkTimeline = <<>>
        /\ ttsManager.activeNodes = <<>>
        /\ bargeInDetector.speechFrames = 0
        /\ ~streamState.starting
        /\ ~streamState.stopping

\* the socket's close event ended a session in which a chunk had been
\* scheduled and the last capture frame had raised the run counter
C22_Witness ==
    /\ lastOp = "onclose"
    /\ sockets[1].readyState = "CLOSED"
    /\ sockets[1].handlers
    /\ chunkSeq = 1
    /\ playCalls = {}
    /\ lastResult.state # "none"
    /\ ~lastResult.triggered
    /\ lastCall.speaking
    /\ lastCall.rms >= lastResult.threshold

\* the sockets that are connecting or open
LiveSockets == {s \in DOMAIN sockets : sockets[s].readyState \in {"CONNECTING", "OPEN"}}

\* C23: at most one live connection exists: in no reachable state are two
\* WebSockets created by startStream both CONNECTING or OPEN, for every
\* interleaving of clicks, socket events and the awaits inside startStream.
C23_AtMostOneLiveSocket == Cardinality(LiveSockets) <= 1

C25_UnknownMessageChangesNothing ==
    [][ lastOp' = "unknown" =>
          UNCHANGED <<currentPartialEl, lastFinalSignature, lastFinalAtMs, logEl,
                      ttsManager, sources, sockets, ws, streamState,
                      audioManager>> ]_vars

\* a message whose type differs from partial only by case was handled while a
\* partial was on display, a final was remembered and chunks were scheduled
C25_Witness ==
    /\ lastOp = "unknown"
    /\ lastMessage = [type |-> "Partial", original |-> <<"a", "b">>]
    /\ currentPartialEl.attached
    /\ currentPartialEl.lastText = <<"a">>
    /\ lastFinalSignature # <<>>
    /\ ttsManager.chunkTimeline # <<>>

(***************************************************************************)
(* More claims about the detector                                          *)
(***************************************************************************)
\* C26: interruption is detected within one cooldown window: while playback
\* is on and the frames stay at or above the threshold, a frame of that run
\* that is not reported triggered=true, although the run is minFrames long,
\* comes less than cooldownMs or fewer than minFrames frames after the
\* previous trigger; so the trigger comes no later than minFrames frames
\* after the cooldown has run out.
C26_TriggerWithinCooldownWindow ==
    ( JustProcessed /\ ~lastResult.triggered
      /\ runLen >= bargeInDetector.minFrames ) =>
        /\ trigLog # <<>>
        /\ \/ nowMs - trigLog[Len(trigLog)].at < CooldownMs
           \/ frameCount - trigLog[Len(trigLog)].frameNo < bargeInDetector.minFrames

\* an unbroken loud run triggered, was held back by the cooldown for more
\* than minFrames frames, and triggered again on the first frame after it
C26_Witness ==
    /\ JustProcessed
    /\ lastResult.triggered
    /\ runLen = frameCount
    /\ Len(trigLog) = 2
    /\ trigLog[2].frameNo = frameCount
    /\ trigLog[2].at - trigLog[1].at = CooldownMs
    /\ trigLog[2].frameNo - trigLog[1].frameNo > bargeInDetector.minFrames

(***************************************************************************)
(* Claims about the capture worklet                                        *)
(***************************************************************************)
\* C27: the worklet emits fixed-size frames without loss: every posted frame
\* holds exactly bufferSize samples, bufferIndex stays within 0..bufferSize-1
\* between process calls, and the posted frames, concatenated, are the
\* converted input samples in order, without gaps or repeats, up to the last
\* full frame, whatever the sizes of the input blocks.
C27_FramesFixedSizeNoLoss ==
    /\ \A k \in 1..Len(posted) : Len(posted[k]) = BufferSize
    /\ pcmProcessor.bufferIndex \in 0..(BufferSize - 1)
    /\ Len(posted) = Len(fed) \div BufferSize
    /\ Concat(posted) = [i \in 1..(BufferSize * Len(posted)) |-> ToInt16(fed[i])]

\* two frames were posted from blocks that did not line up with the buffer,
\* and a sample of the next frame is waiting
C27_Witness ==
    /\ lastOp = "worklet"
    /\ Len(posted) = 2
    /\ posted[1] # posted[2]
    /\ pcmProcessor.bufferIndex = 1
    /\ Len(fed) = 2 * BufferSize + 1

(***************************************************************************)
(* Claims about the Orchestrator                                           *)
(***************************************************************************)
\* C28: in every session at most one generation request is live at any
\* instant: a flush that comes while a handle is still in flight is queued,
\* never dispatched next to it.
C28_AtMostOneLiveHandle == Cardinality(LiveHandles(session)) <= 1

\* a flush was queued behind a cancelled handle that is still in flight
C28_Witness ==
    /\ session.queued
    /\ Cardinality(LiveHandles(session)) = 1
    /\ \E i \in LiveHandles(session) : session.handles[i].cancelled
    /\ lastOp = "timer"

\* C29: the silence timer is armed anew by every Final, and the buffer is
\* flushed only when a full silence window has passed since the last Final:
\* the Finals of one window give exactly one generation request, whose prompt
\* is the buffered texts concatenated in arrival order, and the flush leaves
\* the buffer empty.
C29_OneFlushAfterSilence ==
    [][ /\ lastOp' \in {"accumulate", "bargeInFinal"} =>
              session'.timer = nowMs + SilenceWindowMs
        /\ Len(session'.handles) > Len(session.handles) =>
              /\ Len(session'.handles) = Len(session.handles) + 1
              /\ nowMs - session.lastFinalAt >= SilenceWindowMs
              /\ session.pending # <<>>
              /\ session'.handles[Len(session'.handles)].promptText
                    = Concat(session.pending)
              /\ session'.pending = <<>> ]_vars

\* two Finals, the second inside the window of the first, were flushed as
\* one prompt a full window after the second
C29_Witness ==
    /\ lastOp = "timer"
    /\ session.finals = 2
    /\ Len(session.handles) = 1
    /\ session.handles[1].promptText = <<"h", "i", " ", "u">>
    /\ session.pending = <<>>
    /\ session.lastFinalAt = StartMs + SilenceStepMs
    /\ nowMs - session.lastFinalAt >= SilenceWindowMs
    /\ nowMs - StartMs > SilenceWindowMs

\* the last turn of the history
LastTurn(o) == o.history[Len(o.history)]

\* C30: a barge-in raised while the session is generating or speaking cancels
\* the silence timer, a queued flush and the live generation, records a turn
\* with interrupted = true, the agent's text so far and the prefix of it that
\* was heard, and leaves the session Accumulating with the interrupting Final
\* as the only text of the pending buffer.
C30_BargeInKeepsInterruptingText ==
    [][ lastOp' \in {"bargeInFinal", "bargeInAcoustic"} =>
          /\ session.state \in {"Flushing", "Speaking"}
          /\ session'.state = "Accumulating"
          /\ ~session'.queued
          /\ \A i \in LiveHandles(session') : session'.handles[i].cancelled
          /\ Len(session'.history) = Len(session.history) + 1
          /\ LastTurn(session').interrupted
          /\ LastTurn(session').userText = session.handles[session.current].promptText
          /\ LastTurn(session').agentText =
                IF session.state = "Flushing"
                THEN session.handles[session.current].chunksEmitted
                ELSE session.agentText
          /\ LastTurn(session').spokenText =
                SubSeq(LastTurn(session').agentText, 1,
                       Len(LastTurn(session').spokenText))
          /\ IF lastOp' = "bargeInFinal"
             THEN /\ session'.pending = <<session'.lastFinalText>>
                  /\ session'.timer = nowMs + SilenceWindowMs
             ELSE /\ session'.pending = <<>>
                  /\ session'.timer = 0 ]_vars

\* a Final interrupted a generation that had produced text, half of which
\* had been heard
C30_Witness ==
    /\ lastOp = "bargeInFinal"
    /\ session.state = "Accumulating"
    /\ session.pending = << <<" ", "u">> >>
    /\ Len(session.history) = 1
    /\ LastTurn(session).interrupted
    /\ LastTurn(session).agentText = <<"o", "k">>
    /\ LastTurn(session).spokenText = <<"o">>
    /\ session.handles[1].cancelled
    /\ session.handles[1].open

\* C31: when the generation engine fails mid-stream, exactly one agent event
\* with status error is emitted, the session returns to Idle, the turn is
\* closed as not interrupted with the partial content, and the prompt is not
\* sent again: the failure creates no handle, leaves no timer, no queued
\* flush and no buffered text, and a handle is only ever created from a
\* Final that arrived for it.
C31_FailureSurfacedNoRetry ==
    [][ /\ lastOp' = "failed" =>
              /\ session'.events = Append(session.events, AgentError)
              /\ session'.state = "Idle"
              /\ Len(session'.history) = Len(session.history) + 1
              /\ ~LastTurn(session').interrupted
              /\ LastTurn(session').userText = session.handles[session.current].promptText
              /\ LastTurn(session').agentText = session.handles[session.current].chunksEmitted
              /\ Len(session'.handles) = Len(session.handles)
              /\ LiveHandles(session') = {}
              /\ ~session'.queued
              /\ session'.timer = 0
              /\ session'.pending = <<>>
        /\ lastOp' # "failed" => session'.events = session.events
        /\ Len(session'.handles) <= session'.finals ]_vars

\* a generation failed after it had produced a chunk
C31_Witness ==
    /\ lastOp = "failed"
    /\ session.state = "Idle"
    /\ session.events = <<AgentError>>
    /\ Len(session.handles) = 1
    /\ LastTurn(session).agentText = <<"o", "k">>
    /\ ~LastTurn(session).interrupted

\* C32: a result with triggered = true always has state "trigger": the
\* detector fires only on a frame whose own RMS is at or above the current
\* threshold, never on a frame below it, the first frames after a cooldown
\* included.
C32_TriggeredHasTriggerState ==
    lastResult.triggered =>
        /\ lastResult.state = "trigger"
        /\ lastResult.rms >= lastResult.threshold

\* what the last step put on the wire
NewOnWire == SubSeq(wire', Len(wire) + 1, Len(wire'))

\* C33: every captured frame is evaluated by the detector before it is
\* forwarded, and forwarded unmodified: the frame's audio data is the last
\* thing its callback sends, on the callback's socket while that socket is
\* current and OPEN, and when the frame triggers a barge-in the barge_in
\* message goes out on the socket before the frame's data, which is still
\* sent.
C33_DetectorBeforeForwarding ==
    [][ lastOp' = "frame" =>
          LET socket   == audioManager.onAudioDataCallback
              forwards == ws = socket /\ sockets[socket].readyState = "OPEN"
              audio    == [socket |-> socket, kind |-> "audio", data |-> lastCall'.data]
              bargeIn  == [socket |-> socket, kind |-> "barge_in", data |-> <<>>]
          IN  /\ frameCount' = frameCount + 1
              /\ lastResult'.rms = ComputeRmsFromInt16(lastCall'.data)
              /\ forwards =>
                    NewOnWire = IF lastResult'.triggered
                                THEN <<bargeIn, audio>> ELSE <<audio>>
              /\ Len(sent') = Len(sent) +
                    Cardinality({i \in DOMAIN NewOnWire : NewOnWire[i].kind = "barge_in"}) ]_vars

\* a loud frame during playback fired: its barge_in message and then its own
\* audio data went out, after the audio of the frame before it
C33_Witness ==
    /\ lastOp = "frame"
    /\ lastResult.triggered
    /\ Len(wire) = 3
    /\ wire[1].kind = "audio"
    /\ wire[2] = [socket |-> 1, kind |-> "barge_in", data |-> <<>>]
    /\ wire[3] = [socket |-> 1, kind |-> "audio", data |-> LoudFrame]
    /\ Len(sent) = 1

\* a socket the session has left behind for good
Retired(socks, cur, s) == s # cur /\ socks[s].readyState \in {"CLOSING", "CLOSED"}

C35_InactiveUntilNextStart ==
    [][ /\ lastOp' \in {"stopStream", "onclose"} => ~AudioIsActive(audioManager')
        /\ (~AudioIsActive(audioManager) /\ AudioIsActive(audioManager')) =>
              pipeSeq' = pipeSeq + 1
        /\ Cardinality(pipelines') <= 1 ]_vars

\* the final whose display is the last entry of the log
LastShown == logEl[Len(logEl)]

\* input language, output language and case-insensitive trimmed text of the
\* final just handled equal those of the last final displayed
SameAsLastShown(m) ==
    /\ (IF m.input_lang = "" THEN "SRC" ELSE m.input_lang) = LastShown.input_lang
    /\ (IF m.output_lang = "" THEN "TGT" ELSE m.output_lang) = LastShown.output_lang
    /\ ToLowerCase(Trim(m.original)) = ToLowerCase(LastShown.text)

\* C37: a final whose input language, output language and case-insensitive
\* trimmed text equal those of the previously displayed final is displayed
\* again only if at least 2500 ms have passed since that one was displayed;
\* a suppressed duplicate does not extend the window (the duplicate that
\* comes 2500 ms after the displayed one is displayed), and
\* conversation_cleared resets the dedup state, so that the next final with
\* text is displayed.
C37_DuplicateFinalsWithinWindow ==
    [][ /\ ( /\ lastMessage'.type = "final"
             /\ lastOp' \in {"final", "finalDropped"}
             /\ logEl # <<>>
             /\ lastFinalSignature # <<>>
             /\ SameAsLastShown(lastMessage') ) =>
                ( lastOp' = "final" <=> nowMs - LastShown.at >= FinalDedupWindowMs )
        /\ lastOp' = "finalDropped" =>
              /\ logEl' = logEl
              /\ lastFinalAtMs' = lastFinalAtMs
              /\ lastFinalSignature' = lastFinalSignature
        /\ lastMessage'.type = "conversation_cleared" =>
              lastFinalSignature' = <<>> /\ lastFinalAtMs' = 0
        /\ ( /\ lastMessage'.type = "final"
             /\ lastFinalSignature = <<>>
             /\ Trim(lastMessage'.original) # <<>> ) =>
                /\ lastOp' = "final"
                /\ Len(logEl') = Len(logEl) + 1 ]_vars

\* a final was displayed, the same final in other letter case was suppressed
\* 1250 ms later, and displayed when it came again after 2500 ms
C37_Witness ==
    /\ lastOp = "final"
    /\ Len(logEl) = 2
    /\ logEl[1].text = <<"a", "b">>
    /\ logEl[2].text = <<"A", "b">>
    /\ logEl[1].input_lang = logEl[2].input_lang
    /\ logEl[2].at - logEl[1].at = 2 * DedupStepMs
    /\ lastFinalAtMs = logEl[2].at

\* the sockets that are not ws.current and whose state the step changes
EventsOfSuperseded ==
    {s \in DOMAIN sockets : s # ws /\ sockets'[s] # sockets[s]}

RECURSIVE SumDurations(_)
SumDurations(timeline) ==
    IF timeline = <<>> THEN 0
    ELSE SumDurations(SubSeq(timeline, 1, Len(timeline) - 1))
         + timeline[Len(timeline)].duration

RECURSIVE SumTextChars(_)
SumTextChars(timeline) ==
    IF timeline = <<>> THEN 0
    ELSE SumTextChars(SubSeq(timeline, 1, Len(timeline) - 1))
         + timeline[Len(timeline)].textChars

\* C38: in every reachable state of the TTSManager totalAudioSeconds is the
\* sum of the durations and totalTextChars the sum of the textChars of the
\* chunks in chunkTimeline, and every node in activeNodes belongs to a chunk
\* of chunkTimeline that has not ended.
C38_TotalsMatchTimeline ==
    /\ ttsManager.totalAudioSeconds = SumDurations(ttsManager.chunkTimeline)
    /\ ttsManager.totalTextChars = SumTextChars(ttsManager.chunkTimeline)
    /\ \A n \in DOMAIN ttsManager.activeNodes :
          \E i \in DOMAIN ttsManager.chunkTimeline :
              /\ ttsManager.chunkTimeline[i].id = ttsManager.activeNodes[n]
              /\ ~ttsManager.chunkTimeline[i].ended

\* a chunk at another sample rate replaced the context while the first chunk
\* was scheduled: both are in the timeline, only the second node is active
C38_Witness ==
    /\ ttsManager.context.id = 2
    /\ Len(ttsManager.chunkTimeline) = 2
    /\ ttsManager.activeNodes = <<2>>
    /\ ~ttsManager.chunkTimeline[1].ended
    /\ ttsManager.totalAudioSeconds = 900

\* C39: whenever it is called, getPlaybackStats returns
\* 0 <= played_audio_seconds <= total_audio_seconds and both percents within
\* 0..100, and it returns all zeros when there is no audio context or the
\* timeline is empty.
C39_StatsWithinBounds ==
    LET r == GetPlaybackStats(ttsManager)
    IN  /\ 0 <= r.played_audio_seconds
        /\ r.played_audio_seconds <= r.total_audio_seconds
        /\ r.playback_percent \in 0..1000
        /\ r.played_text_percent \in 0..1000
        /\ (ttsManager.context = NoContext \/ ttsManager.chunkTimeline = <<>>)
              => /\ r.played_audio_seconds = 0
                 /\ r.total_audio_seconds = 0
                 /\ r.playback_percent = 0
                 /\ r.played_text_percent = 0

\* a chunk is part played, and the clock is past the end of an earlier one
C39_Witness ==
    LET r == GetPlaybackStats(ttsManager)
    IN  /\ Len(ttsManager.chunkTimeline) >= 2
        /\ 0 < r.played_audio_seconds
        /\ r.played_audio_seconds < r.total_audio_seconds
        /\ \E i \in 1..Len(ttsManager.chunkTimeline) :
              ttsManager.context.currentTime
                 > ttsManager.chunkTimeline[i].startAt + ttsManager.chunkTimeline[i].duration

\* no context is left after close(), and the statistics are all zero
C39_WitnessZero ==
    /\ lastOp = "close"
    /\ ttsManager.context = NoContext
    /\ GetPlaybackStats(ttsManager) = NoStats

====
